---- MODULE Spec2Model ----
(***************************************************************************)
(* Refinement orchestration of ide-orchestrator: drafts, proposals and the *)
(* PostgreSQL row locks that serialize their mutation.                     *)
(*                                                                         *)
(* Every database statement sequence that runs on one connection without   *)
(* waiting for a row lock is one atomic step.  A transaction that takes    *)
(* row locks (SELECT ... FOR UPDATE) is split at each lock acquisition; a  *)
(* session that holds locks keeps them until its commit or rollback.       *)
(* Writes of a transaction become visible at its commit (READ COMMITTED),  *)
(* so the writes and the commit of a transaction are one step.  Every call  *)
(* opens its own connection (psycopg.connect), so a session runs one call. *)
(***************************************************************************)
EXTENDS Integers, Sequences, FiniteSets, TLC

\* ---------------------------------------------------------------- bounds
NumSessions == 3
MaxProposals == 1
\* refinement requests where only creation and result updates run
MaxRequests == 2
MaxDrafts == 2
MaxClock == 1
MaxCalls == 7
MaxClientMsgs == 2
MaxEvents == 3
TickSeconds == 30

Sessions == 1 .. NumSessions
ProposalIds == 1 .. MaxProposals
RequestIds == 1 .. MaxRequests
AllProposalIds == ProposalIds \cup RequestIds
DraftIds == 1 .. MaxDrafts
\* thread ids a stream event may carry: one more than can exist
ThreadIds == 1 .. (MaxRequests + 1)

Users == {"u1", "u2"}
Workflows == {"w1", "w2"}

\* SQL NULL / Python None for text columns, timestamps and ids
NullStr == "NULL"
NullTime == -1
NoId == 0

\* workflow ids a request may name: the rows, and an id without a row
WorkflowIds == Workflows \cup {"w0"}

\* workflows.created_by_user_id, written once by create_workflow
WorkflowOwner(w) ==
    IF w = "w1" THEN "u1" ELSE IF w = "w2" THEN "u2" ELSE NullStr

\* ------------------------------------------------------- file payloads
\* A generated_files entry as the runtime may send it: a dict or not, with
\* or without "content"; content a str, a list of lines or another value.
StrContent(s) == [ctype |-> "str", lines |-> <<s>>, num |-> 0]
ListContent(l) == [ctype |-> "list", lines |-> l, num |-> 0]
IntContent(n) == [ctype |-> "int", lines |-> <<>>, num |-> n]
NoContent == [ctype |-> "none", lines |-> <<>>, num |-> 0]

DictEntry(c, t) ==
    [is_dict |-> TRUE, has_content |-> c.ctype # "none", content |-> c,
     has_type |-> t # NullStr, type |-> t]
NonDictEntry ==
    [is_dict |-> FALSE, has_content |-> FALSE, content |-> NoContent,
     has_type |-> FALSE, type |-> NullStr]

EmptyFiles == << >>
FilesA == ("a.py" :> DictEntry(StrContent("x"), NullStr))
FilesB == ("a.py" :> DictEntry(ListContent(<<"y", "z">>), "python")
           @@ "b.py" :> NonDictEntry)
FilesC == ("a.py" :> DictEntry(NoContent, "python")
           @@ "b.py" :> DictEntry(IntContent(5), NullStr))
FilePayloads == {EmptyFiles, FilesA, FilesB, FilesC}
\* a file set with two entries the upsert loop stores
FilesD == ("a.py" :> DictEntry(StrContent("x"), NullStr)
           @@ "b.py" :> DictEntry(ListContent(<<"y", "z">>), "python"))
\* the file sets the runtime answers with
RuntimeFiles == {EmptyFiles, FilesA, FilesB}

\* Python truthiness of a dict
Truthy(f) == DOMAIN f # {}

\* "\n".join(str(line) for line in content)
RECURSIVE JoinLines(_)
JoinLines(l) ==
    IF Len(l) = 0 THEN ""
    ELSE IF Len(l) = 1 THEN l[1]
    ELSE l[1] \o "\n" \o JoinLines(Tail(l))

\* content normalisation of _apply_files_to_draft
ContentToText(c) ==
    CASE c.ctype = "list" -> JoinLines(c.lines)
      [] c.ctype = "str" -> c.lines[1]
      [] OTHER -> ToString(c.num)

\* file_data.get("type", "markdown")
FileTypeOf(e) == IF e.has_type THEN e.type ELSE "markdown"

\* entries the upsert loop does not skip
Applicable(f) == {p \in DOMAIN f : f[p].is_dict /\ f[p].has_content}

\* for file_path, file_data in generated_files.items(): the order in which
\* the loop visits the paths
PathOrder == <<"a.py", "b.py">>
InApplicable(f, p) == p \in Applicable(f)
UpsertSeq(f) == SelectSeq(PathOrder, LAMBDA p : InApplicable(f, p))

\* the entries of the first n upserts of the loop
FirstUpserts(f, n) ==
    [p \in {UpsertSeq(f)[i] : i \in 1..n} |-> f[p]]

\* an upsert that appends to the content of a row that exists
ApplyFilesAppending(rows, f) ==
    [p \in (DOMAIN rows) \cup Applicable(f) |->
        IF p \in Applicable(f)
        THEN [content |->
                  IF p \in DOMAIN rows
                  THEN rows[p].content \o "\n" \o ContentToText(f[p].content)
                  ELSE ContentToText(f[p].content),
              file_type |-> FileTypeOf(f[p])]
        ELSE rows[p]]

\* an application that replaces the rows of the draft by the file set
ApplyFilesReplacing(rows, f) ==
    [p \in Applicable(f) |->
        [content |-> ContentToText(f[p].content),
         file_type |-> FileTypeOf(f[p])]]

\* an upsert that leaves a row that exists as it is
ApplyFilesKeepingExisting(rows, f) ==
    [p \in (DOMAIN rows) \cup Applicable(f) |->
        IF p \in DOMAIN rows THEN rows[p]
        ELSE [content |-> ContentToText(f[p].content),
              file_type |-> FileTypeOf(f[p])]]

\* the draft_specification_files rows of one draft after the UPSERT loop
ApplyFilesToDraft(rows, f) ==
    [p \in (DOMAIN rows) \cup Applicable(f) |->
        IF p \in Applicable(f)
        THEN [content |-> ContentToText(f[p].content),
              file_type |-> FileTypeOf(f[p])]
        ELSE rows[p]]

\* json.dumps(generated_files) if generated_files else None
StoredFiles(f) ==
    IF Truthy(f) THEN [is_null |-> FALSE, value |-> f]
    ELSE [is_null |-> TRUE, value |-> EmptyFiles]
NullFiles == [is_null |-> TRUE, value |-> EmptyFiles]

\* ---------------------------------------------------------------- state
VARIABLES
    is_locked,      \* workflows.is_locked
    drafts,         \* drafts rows: draft id -> workflow id
    files,          \* draft_specification_files: draft id -> path -> row
    draftSeq,       \* number of drafts ever inserted (ids are fresh)
    proposals,      \* proposals rows, the proposal id is the index
    access,         \* proposal_access rows <<proposal id, user id>>
    task,           \* background polling task of each proposal
    rowLock,        \* row locks held: pairs <<row, session>>
    pc,             \* position of each database session
    loc,            \* local variables of each database session
    now,            \* datetime.utcnow()
    result,         \* what the last call of each session returned
    last,           \* the operation that ended last, and its outcome
    rt,             \* the circuit breaker and the calls of the runtime
    ws              \* one client connection of the streaming proxy

vars == <<is_locked, drafts, draftSeq, files, proposals, access, task,
          rowLock, pc, loc, now, result, last, rt, ws>>

\* pybreaker.CircuitBreaker(fail_max=5, reset_timeout=60, ...) as constructed,
\* before any call
NoRuntime ==
    [awaits |-> FALSE, state |-> "closed", fail_counter |-> 0, elapsed |-> 0,
     calls |-> 0, requests |-> 0, streak |-> 0,
     lastcall |-> [outcome |-> "none", raised |-> "none", sent |-> FALSE]]

\* no client has connected to /api/ws/refinements/{thread_id}
NoSocket ==
    [phase |-> "none", token |-> "none", user |-> NullStr, thread |-> NoId,
     client |-> "none", close_code |-> 0, runtime |-> "none",
     c2d |-> "none", d2c |-> "none",
     csent |-> << >>, cin |-> << >>, rtout |-> << >>,
     rsent |-> << >>, rin |-> << >>, cout |-> << >>,
     final_files |-> << >>, tasks |-> << >>, handed |-> << >>]

NoLoc == [wf |-> NullStr, user |-> NullStr, prop |-> NoId, draft |-> NoId,
          gfiles |-> NullFiles]

Done(op, outcome, id) == [op |-> op, outcome |-> outcome, id |-> id]
NoResult == Done("none", "none", NoId)

Init ==
    /\ is_locked = [w \in Workflows |-> FALSE]
    /\ drafts = << >>
    /\ draftSeq = 0
    /\ files = [d \in DraftIds |-> << >>]
    /\ proposals = << >>
    /\ access = {}
    /\ task = [p \in AllProposalIds |-> "none"]
    /\ rowLock = {}
    /\ pc = [s \in Sessions |-> "idle"]
    /\ loc = [s \in Sessions |-> NoLoc]
    /\ now = 0
    /\ result = [s \in Sessions |-> NoResult]
    /\ last = Done("init", "ok", NoId)
    /\ rt = NoRuntime
    /\ ws = NoSocket

Exists(p) == p \in DOMAIN proposals
Free(r) == \A s \in Sessions : <<r, s>> \notin rowLock

\* time passes
Tick ==
    /\ now < MaxClock
    /\ now' = now + 1
    /\ UNCHANGED <<is_locked, drafts, draftSeq, files, proposals, access,
                   task, rowLock, pc, loc, result, last>>
    /\ UNCHANGED <<rt, ws>>

\* --------------------------------------------------- audit trail builder
\* A value handed to the builder as current_audit_trail, or stored in
\* proposals.ai_generated_content: None, "", text that json.loads rejects,
\* a value that is not text, or JSON text of one of the JSON kinds.  For an
\* object, entries maps its keys to their values; for a JSON string, str
\* is the string.
TrailValue(form, kind, entries, str) ==
    [form |-> form, kind |-> kind, entries |-> entries, str |-> str]
NoText == TrailValue("none", "none", << >>, "")
EmptyText == TrailValue("empty", "none", << >>, "")
NotJsonText == TrailValue("notjson", "none", << >>, "")
NotText == TrailValue("object", "none", << >>, "")
JsonObject(entries) == TrailValue("json", "object", entries, "")
JsonArray == TrailValue("json", "array", << >>, "")
JsonNumber == TrailValue("json", "number", << >>, "")
JsonNull == TrailValue("json", "null", << >>, "")
JsonString(str) == TrailValue("json", "string", << >>, str)

\* the keys the builder writes
EventKeys ==
    {"created", "processing_completed", "processing_failed", "approved",
     "rejected"}

\* one entry of the trail
Event(t, u, action, n) ==
    [timestamp |-> t, user_id |-> u, action |-> action, count |-> n]

\* AuditService.create_initial_audit_trail, as json.dumps stores it
CreateInitialAuditTrail(u) ==
    JsonObject("created" :> Event(now, u, "proposal_created", 0))

\* "audit_trail = {}; if current_audit_trail: try: json.loads(...) except
\* (json.JSONDecodeError, TypeError): audit_trail = {}"
ParseTrail(x) ==
    IF x.form = "json" THEN x ELSE JsonObject(<< >>)

\* audit_trail[key] = {...}; return json.dumps(audit_trail): the item
\* assignment raises TypeError on a list, a number, a string and None
AddEvent(x, key, e) ==
    LET t == ParseTrail(x) IN
    IF t.kind = "object"
    THEN [raised |-> "none",
          value |-> JsonObject([k \in (DOMAIN t.entries) \cup {key} |->
                                   IF k = key THEN e ELSE t.entries[k]])]
    ELSE [raised |-> "TypeError", value |-> NoText]

\* AuditService.add_processing_event
AddProcessingEvent(x, status, f) ==
    AddEvent(x, "processing_" \o status,
             Event(now, NullStr, status, Cardinality(DOMAIN f)))

\* AuditService.add_approval_event
AddApprovalEvent(x, u, n) ==
    AddEvent(x, "approved", Event(now, u, "proposal_approved", n))

\* AuditService.add_rejection_event
AddRejectionEvent(x, u) ==
    AddEvent(x, "rejected", Event(now, u, "proposal_rejected", 0))

\* AuditService.get_audit_summary: the keys of the summary; '"created" in
\* audit_trail' raises TypeError on a number and on None, is a substring
\* test on a string, and is false on a list of other things
GetAuditSummary(x) ==
    IF x.form \in {"none", "empty", "notjson", "object"}
    THEN [raised |-> "none", value |-> {}]
    ELSE CASE x.kind = "object" ->
                [raised |-> "none", value |-> (DOMAIN x.entries) \cap EventKeys]
           [] x.kind = "array" -> [raised |-> "none", value |-> {}]
           [] x.kind = "string" ->
                IF x.str \in EventKeys
                THEN [raised |-> "TypeError", value |-> {}]
                ELSE [raised |-> "none", value |-> {}]
           [] OTHER -> [raised |-> "TypeError", value |-> {}]

\* records a caller may hand to the builder
AuditInputs ==
    {NoText, EmptyText, NotJsonText, NotText, JsonArray, JsonNumber,
     JsonNull, JsonString("x"), JsonString("created"), JsonObject(<< >>),
     JsonObject("created" :> Event(0, "u1", "proposal_created", 0))}

AuditBuilders ==
    {"add_processing_event", "add_approval_event", "add_rejection_event"}

\* the inputs of a call: the records above, and the record the last
\* builder call returned
TrailInputs ==
    AuditInputs \cup
        (IF last.op \in AuditBuilders /\ last.outcome = "none"
         THEN {last.returned.value} ELSE {})

\* a call of a builder function and what it returned or raised
AuditCalled(op, x, returned) ==
    /\ last' = [op |-> op, outcome |-> returned.raised, id |-> NoId,
                input |-> x, returned |-> returned]
    /\ UNCHANGED <<is_locked, drafts, draftSeq, files, proposals, access,
                   task, rowLock, pc, loc, now, result, rt, ws>>

AddProcessingEventCall(x, status, f) ==
    AuditCalled("add_processing_event", x, AddProcessingEvent(x, status, f))

AddApprovalEventCall(x, u, n) ==
    AuditCalled("add_approval_event", x, AddApprovalEvent(x, u, n))

AddRejectionEventCall(x, u) ==
    AuditCalled("add_rejection_event", x, AddRejectionEvent(x, u))

GetAuditSummaryCall(x) ==
    AuditCalled("get_audit_summary", x, GetAuditSummary(x))

\* ------------------------------------------------------- proposal store
\* an update that writes the status and the completion time only
UpdateProposalResultsNoFiles(props, p, status, c, f) ==
    IF p \in DOMAIN props
    THEN [props EXCEPT ![p].status = status,
                       ![p].ai_generated_content = c,
                       ![p].completed_at =
                           IF status \in {"completed", "failed"}
                           THEN now ELSE NullTime]
    ELSE props

\* UPDATE proposals SET status, ai_generated_content, generated_files,
\* completed_at WHERE id
UpdateProposalResults(props, p, status, c, f) ==
    IF p \in DOMAIN props
    THEN [props EXCEPT ![p].status = status,
                       ![p].ai_generated_content = c,
                       ![p].generated_files = StoredFiles(f),
                       ![p].completed_at =
                           IF status \in {"completed", "failed"}
                           THEN now ELSE NullTime]
    ELSE props

\* json.dumps(result) if result else None: the result of the runtime, the
\* text of an exception, or nothing
RuntimeResults == {"result", "error", "none"}
DumpResult(r) ==
    CASE r = "result" -> TrailValue("json", "object", << >>, "result")
      [] r = "error" -> JsonString("error")
      [] OTHER -> NoText

\* the same statement, issued by the orchestration service
OrchUpdateProposalResults(props, p, status, r, f) ==
    IF p \in DOMAIN props
    THEN [props EXCEPT ![p].status = status,
                       ![p].ai_generated_content = DumpResult(r),
                       ![p].generated_files = StoredFiles(f),
                       ![p].completed_at =
                           IF status \in {"completed", "failed"}
                           THEN now ELSE NullTime]
    ELSE props

\* SELECT id, draft_id, status FROM proposals WHERE thread_id = %s
GetProposalByThreadId(t) ==
    IF \E p \in DOMAIN proposals : proposals[p].thread_id = t
    THEN CHOOSE p \in DOMAIN proposals : proposals[p].thread_id = t
    ELSE NoId

\* ProposalService.resolve_proposal
ResolveProposal(p, resolution, u, c) ==
    /\ Exists(p)
    /\ Free(<<"proposals", p>>)
    /\ proposals' = [proposals EXCEPT ![p].status = "resolved",
                                      ![p].ai_generated_content = c,
                                      ![p].resolution = resolution,
                                      ![p].resolved_by_user_id = u,
                                      ![p].resolved_at = now]
    /\ last' = Done("resolve", "ok", p)
    /\ UNCHANGED <<is_locked, drafts, draftSeq, files, access, task,
                   rowLock, pc, loc, now, result>>
    /\ UNCHANGED <<rt, ws>>

\* the record of a proposal as the store has it
StoredTrail(p) ==
    IF p \in DOMAIN proposals THEN proposals[p].ai_generated_content
    ELSE NoText

\* the audit_trail_json a caller passes: "{}", or the record a builder
\* function returned
TrailArgs(built) ==
    {JsonObject(<< >>)} \cup
        (IF built.raised = "none" THEN {built.value} ELSE {})

\* ProposalService.create_proposal with the record of
\* create_initial_audit_trail
CreateProposal(d, u) ==
    /\ proposals' = Append(proposals,
                           [draft_id |-> d, thread_id |-> Len(proposals) + 1,
                            status |-> "processing",
                            generated_files |-> NullFiles,
                            completed_at |-> NullTime,
                            resolved_by_user_id |-> NullStr,
                            resolved_at |-> NullTime,
                            resolution |-> NullStr,
                            created_by_user_id |-> u,
                            ai_generated_content |->
                                CreateInitialAuditTrail(u)])
    /\ access' = access \cup {<<Len(proposals) + 1, u>>}
    /\ last' = Done("store_create", "ok", Len(proposals) + 1)
    /\ UNCHANGED <<is_locked, drafts, draftSeq, files, task, rowLock, pc,
                   loc, now, result, rt, ws>>

\* ProposalService.update_proposal_results
UpdateProposalResultsCall(p, status, c, f) ==
    /\ Exists(p)
    /\ Free(<<"proposals", p>>)
    /\ proposals' = UpdateProposalResults(proposals, p, status, c, f)
    /\ last' = Done("store_update", "ok", p)
    /\ UNCHANGED <<is_locked, drafts, draftSeq, files, access, task,
                   rowLock, pc, loc, now, result, rt, ws>>

\* OrchestrationService.update_proposal_files_from_stream
UpdateProposalFilesFromStream(t, f) ==
    LET p == GetProposalByThreadId(t) IN
    /\ IF p = NoId
       THEN /\ last' = Done("stream_files", "Proposal not found", NoId)
            /\ UNCHANGED proposals
       ELSE /\ Free(<<"proposals", p>>)
            /\ proposals' = UpdateProposalResults(proposals, p, "completed",
                                                  DumpResult("none"), f)
            /\ last' = Done("stream_files", "ok", p)
    /\ UNCHANGED <<is_locked, drafts, draftSeq, files, access, task,
                   rowLock, pc, loc, now, result>>

\* OrchestrationService.update_proposal_status_from_stream
UpdateProposalStatusFromStream(t) ==
    LET p == GetProposalByThreadId(t) IN
    /\ IF p = NoId
       THEN /\ last' = Done("stream_status", "Proposal not found", NoId)
            /\ UNCHANGED proposals
       ELSE /\ Free(<<"proposals", p>>)
            /\ proposals' =
                   UpdateProposalResults(proposals, p, "failed",
                                         DumpResult("error"), EmptyFiles)
            /\ last' = Done("stream_status", "ok", p)
    /\ UNCHANGED <<is_locked, drafts, draftSeq, files, access, task,
                   rowLock, pc, loc, now, result>>

\* -------------------------------------------------- orchestration engine
\* a proposal whose thread id is derived from its draft
NewProposalThreadOfDraft(d, u) ==
    [draft_id |-> d, thread_id |-> d,
     status |-> "processing", generated_files |-> NullFiles,
     completed_at |-> NullTime, resolved_by_user_id |-> NullStr,
     resolved_at |-> NullTime, resolution |-> NullStr,
     created_by_user_id |-> u, ai_generated_content |-> NoText]

NewProposal(d, u) ==
    [draft_id |-> d, thread_id |-> Len(proposals) + 1,
     status |-> "processing", generated_files |-> NullFiles,
     completed_at |-> NullTime, resolved_by_user_id |-> NullStr,
     resolved_at |-> NullTime, resolution |-> NullStr,
     created_by_user_id |-> u, ai_generated_content |-> NoText]

\* thread_id = f"refinement-{proposal_id}": the prefix of every thread id
ThreadPrefix(p) == "refinement-"

\* OrchestrationService.create_refinement_proposal
CreateRefinementProposal(d, u) ==
    /\ IF d \notin DOMAIN drafts
       THEN /\ last' = Done("create", "Draft not found", NoId)
            /\ UNCHANGED <<proposals, access, task>>
       ELSE IF WorkflowOwner(drafts[d]) # u
       THEN /\ last' = Done("create", "Access denied to draft", NoId)
            /\ UNCHANGED <<proposals, access, task>>
       ELSE /\ proposals' = Append(proposals, NewProposal(d, u))
            /\ access' = access \cup {<<Len(proposals) + 1, u>>}
            /\ task' = [task EXCEPT ![Len(proposals) + 1] = "pending"]
            /\ last' = Done("create", "ok", Len(proposals) + 1)
    /\ UNCHANGED <<is_locked, drafts, draftSeq, files, rowLock, pc, loc,
                   now, result>>
    /\ UNCHANGED <<rt, ws>>

\* OrchestrationService._process_refinement_async: the runtime answers with
\* a state (200), with another status code, or the call raises
ProcessRefinementAsync(p) ==
    /\ task[p] = "pending"
    /\ Free(<<"proposals", p>>)
    /\ \/ \E f \in RuntimeFiles :
            /\ proposals' =
                   OrchUpdateProposalResults(proposals, p, "completed",
                                             "result", f)
            /\ last' = Done("process", "completed", p)
       \/ \E r \in {"error", "none"} :
            /\ proposals' =
                   OrchUpdateProposalResults(proposals, p, "failed", r,
                                             EmptyFiles)
            /\ last' = Done("process", "failed", p)
    /\ task' = [task EXCEPT ![p] = "done"]
    /\ UNCHANGED <<is_locked, drafts, draftSeq, files, access, rowLock, pc,
                   loc, now, result>>
    /\ UNCHANGED <<rt, ws>>

\* a rejection that also clears the files of the proposal's draft
RejectProposalDiscarding(p, u) ==
    /\ IF ~(Exists(p) /\ <<p, u>> \in access)
       THEN /\ last' = Done("reject", "Proposal not found", p)
            /\ UNCHANGED <<proposals, files>>
       ELSE /\ Free(<<"proposals", p>>)
            /\ proposals' = [proposals EXCEPT ![p].status = "rejected",
                                              ![p].resolved_by_user_id = u,
                                              ![p].resolved_at = now]
            /\ files' = [files EXCEPT ![proposals[p].draft_id] = << >>]
            /\ last' = Done("reject", "ok", p)
    /\ UNCHANGED <<is_locked, drafts, draftSeq, access, task,
                   rowLock, pc, loc, now, result>>
    /\ UNCHANGED <<rt, ws>>

\* OrchestrationService.reject_proposal
RejectProposal(p, u) ==
    /\ IF ~(Exists(p) /\ <<p, u>> \in access)
       THEN /\ last' = Done("reject", "Proposal not found", p)
            /\ UNCHANGED proposals
       ELSE /\ Free(<<"proposals", p>>)
            /\ proposals' = [proposals EXCEPT ![p].status = "rejected",
                                              ![p].resolved_by_user_id = u,
                                              ![p].resolved_at = now]
            /\ last' = Done("reject", "ok", p)
    /\ UNCHANGED <<is_locked, drafts, draftSeq, files, access, task,
                   rowLock, pc, loc, now, result>>
    /\ UNCHANGED <<rt, ws>>

\* ----------------------------------------- transactions with row locks
\* a SELECT without FOR UPDATE never waits
LockFreeNoWait(s, r) == TRUE

\* SELECT ... FOR UPDATE waits until no other session holds the row
LockFree(s, r) == \A t \in Sessions \ {s} : <<r, t>> \notin rowLock

Acquire(s, rs) == rowLock \cup {<<r, s>> : r \in rs}

\* commit or rollback: the session's locks are released
Release(s) == {l \in rowLock : l[2] # s}

\* the call of session s returns or raises: its transaction ends
Finish(s, op, outcome, id) ==
    /\ pc' = [pc EXCEPT ![s] = "done"]
    /\ loc' = [loc EXCEPT ![s] = NoLoc]
    /\ rowLock' = Release(s)
    /\ result' = [result EXCEPT ![s] = Done(op, outcome, id)]
    /\ UNCHANGED last

\* a new connection; sessions are taken in order
Begin(s, label, l) ==
    /\ pc[s] = "idle"
    /\ \A t \in Sessions : t < s => pc[t] # "idle"
    /\ pc' = [pc EXCEPT ![s] = label]
    /\ loc' = [loc EXCEPT ![s] = l]
    /\ UNCHANGED <<is_locked, drafts, draftSeq, files, proposals, access,
                   task, rowLock, now, result, last>>
    /\ UNCHANGED <<rt, ws>>

DraftsOf(w) == {d \in DOMAIN drafts : drafts[d] = w}

\* SELECT id FROM drafts WHERE workflow_id = %s ORDER BY created_at DESC
\* LIMIT 1 (ids grow with created_at)
LatestDraft(w) ==
    IF DraftsOf(w) = {} THEN NoId
    ELSE CHOOSE d \in DraftsOf(w) : \A e \in DraftsOf(w) : e <= d

\* -- get_or_create_draft (OrchestrationService and DraftService alike)
GetOrCreateDraftCall(s, w, u) ==
    Begin(s, "goc_lock", [NoLoc EXCEPT !.wf = w, !.user = u])

\* the workflow row is read without FOR UPDATE
GetOrCreateDraftLockNoWait(s) ==
    LET w == loc[s].wf IN
    /\ pc[s] = "goc_lock"
    /\ IF WorkflowOwner(w) # loc[s].user
       THEN Finish(s, "get_or_create",
                   "Workflow not found or access denied", NoId)
       ELSE IF is_locked[w]
       THEN Finish(s, "get_or_create",
                   "Workflow is locked by another operation", NoId)
       ELSE /\ loc' = [loc EXCEPT ![s].draft = LatestDraft(w)]
            /\ pc' = [pc EXCEPT ![s] = "goc_insert"]
            /\ UNCHANGED <<rowLock, result, last>>
    /\ UNCHANGED <<is_locked, drafts, draftSeq, files, proposals, access,
                   task, now>>
    /\ UNCHANGED <<rt, ws>>

\* the lock flag of the workflow is not looked at
GetOrCreateDraftLockIgnoringFlag(s) ==
    LET w == loc[s].wf IN
    /\ pc[s] = "goc_lock"
    /\ IF WorkflowOwner(w) # loc[s].user
       THEN Finish(s, "get_or_create",
                   "Workflow not found or access denied", NoId)
       ELSE /\ LockFree(s, <<"workflows", w>>)
            /\ rowLock' = Acquire(s, {<<"workflows", w>>})
            /\ loc' = [loc EXCEPT ![s].draft = LatestDraft(w)]
            /\ pc' = [pc EXCEPT ![s] = "goc_insert"]
            /\ UNCHANGED <<result, last>>
    /\ UNCHANGED <<is_locked, drafts, draftSeq, files, proposals, access,
                   task, now>>
    /\ UNCHANGED <<rt, ws>>

GetOrCreateDraftLock(s) ==
    LET w == loc[s].wf IN
    /\ pc[s] = "goc_lock"
    /\ IF WorkflowOwner(w) # loc[s].user
       THEN Finish(s, "get_or_create",
                   "Workflow not found or access denied", NoId)
       ELSE /\ LockFree(s, <<"workflows", w>>)
            /\ IF is_locked[w]
               THEN Finish(s, "get_or_create",
                           "Workflow is locked by another operation", NoId)
               ELSE /\ rowLock' = Acquire(s, {<<"workflows", w>>})
                    /\ loc' = [loc EXCEPT ![s].draft = LatestDraft(w)]
                    /\ pc' = [pc EXCEPT ![s] = "goc_insert"]
                    /\ UNCHANGED <<result, last>>
    /\ UNCHANGED <<is_locked, drafts, draftSeq, files, proposals, access,
                   task, now>>
    /\ UNCHANGED <<rt, ws>>

\* a draft is inserted whether or not the workflow has one
GetOrCreateDraftAlwaysInsert(s) ==
    /\ pc[s] = "goc_insert"
    /\ draftSeq < MaxDrafts
    /\ draftSeq' = draftSeq + 1
    /\ drafts' = (draftSeq + 1 :> loc[s].wf) @@ drafts
    /\ Finish(s, "get_or_create", "ok", draftSeq + 1)
    /\ UNCHANGED <<is_locked, files, proposals, access, task, now>>
    /\ UNCHANGED <<rt, ws>>

GetOrCreateDraftInsert(s) ==
    /\ pc[s] = "goc_insert"
    /\ IF loc[s].draft # NoId
       THEN /\ Finish(s, "get_or_create", "ok", loc[s].draft)
            /\ UNCHANGED <<drafts, draftSeq>>
       ELSE /\ draftSeq < MaxDrafts
            /\ draftSeq' = draftSeq + 1
            /\ drafts' = (draftSeq + 1 :> loc[s].wf) @@ drafts
            /\ Finish(s, "get_or_create", "ok", draftSeq + 1)
    /\ UNCHANGED <<is_locked, files, proposals, access, task, now>>
    /\ UNCHANGED <<rt, ws>>

\* -- OrchestrationService.approve_proposal
ApproveProposalCall(s, p, u) ==
    Begin(s, "apr_lock", [NoLoc EXCEPT !.prop = p, !.user = u])

\* the join without proposal_access
JoinedAnyUser(p, u) ==
    /\ Exists(p)
    /\ proposals[p].draft_id \in DOMAIN drafts

\* the row of proposals JOIN proposal_access JOIN drafts
Joined(p, u) ==
    /\ Exists(p)
    /\ <<p, u>> \in access
    /\ proposals[p].draft_id \in DOMAIN drafts

\* an approval that does not look at the proposal's status
ApproveProposalLockAnyStatus(s) ==
    LET p == loc[s].prop
        d == proposals[p].draft_id IN
    /\ pc[s] = "apr_lock"
    /\ IF ~Joined(p, loc[s].user)
       THEN Finish(s, "approve", "Proposal not found", p)
       ELSE /\ LockFree(s, <<"proposals", p>>)
            /\ LockFree(s, <<"drafts", d>>)
            /\ rowLock' = Acquire(s, {<<"proposals", p>>, <<"drafts", d>>})
            /\ loc' = [loc EXCEPT
                          ![s].draft = d,
                          ![s].wf = drafts[d],
                          ![s].gfiles = proposals[p].generated_files]
            /\ pc' = [pc EXCEPT ![s] = "apr_wf"]
            /\ UNCHANGED <<result, last>>
    /\ UNCHANGED <<is_locked, drafts, draftSeq, files, proposals, access,
                   task, now>>
    /\ UNCHANGED <<rt, ws>>

ApproveProposalLock(s) ==
    LET p == loc[s].prop
        d == proposals[p].draft_id IN
    /\ pc[s] = "apr_lock"
    /\ IF ~Joined(p, loc[s].user)
       THEN Finish(s, "approve", "Proposal not found", p)
       ELSE /\ LockFree(s, <<"proposals", p>>)
            /\ LockFree(s, <<"drafts", d>>)
            /\ IF proposals[p].status # "completed"
               THEN Finish(s, "approve",
                           "Proposal is not ready for approval", p)
               ELSE /\ rowLock' =
                           Acquire(s, {<<"proposals", p>>, <<"drafts", d>>})
                    /\ loc' = [loc EXCEPT
                                  ![s].draft = d,
                                  ![s].wf = drafts[d],
                                  ![s].gfiles = proposals[p].generated_files]
                    /\ pc' = [pc EXCEPT ![s] = "apr_wf"]
                    /\ UNCHANGED <<result, last>>
    /\ UNCHANGED <<is_locked, drafts, draftSeq, files, proposals, access,
                   task, now>>
    /\ UNCHANGED <<rt, ws>>

ApproveProposalCommit(s) ==
    LET p == loc[s].prop
        d == loc[s].draft
        g == loc[s].gfiles IN
    /\ pc[s] = "apr_wf"
    /\ LockFree(s, <<"workflows", loc[s].wf>>)
    /\ IF is_locked[loc[s].wf]
       THEN /\ Finish(s, "approve",
                      "Workflow is locked by another operation", p)
            /\ UNCHANGED <<files, proposals>>
       ELSE /\ files' = IF ~g.is_null /\ Truthy(g.value)
                        THEN [files EXCEPT
                                 ![d] = ApplyFilesToDraft(files[d], g.value)]
                        ELSE files
            /\ proposals' = [proposals EXCEPT
                                ![p].status = "approved",
                                ![p].resolved_by_user_id = loc[s].user,
                                ![p].resolved_at = now]
            /\ Finish(s, "approve", "ok", p)
    /\ UNCHANGED <<is_locked, drafts, draftSeq, access, task, now>>
    /\ UNCHANGED <<rt, ws>>

\* -- WorkflowService.publish_draft
PublishDraftCall(s, w, u) ==
    Begin(s, "pub_lock", [NoLoc EXCEPT !.wf = w, !.user = u])

PublishDraftLock(s) ==
    LET w == loc[s].wf IN
    /\ pc[s] = "pub_lock"
    /\ IF WorkflowOwner(w) # loc[s].user
       THEN Finish(s, "publish", "Workflow not found or access denied", NoId)
       ELSE /\ LockFree(s, <<"workflows", w>>)
            /\ IF is_locked[w]
               THEN Finish(s, "publish",
                           "Workflow is locked by another operation", NoId)
               ELSE IF DraftsOf(w) = {}
               THEN Finish(s, "publish", "No draft found to publish", NoId)
               ELSE \E d \in DraftsOf(w) :
                    /\ rowLock' = Acquire(s, {<<"workflows", w>>})
                    /\ loc' = [loc EXCEPT ![s].draft = d]
                    /\ pc' = [pc EXCEPT ![s] = "pub_delete"]
                    /\ UNCHANGED <<result, last>>
    /\ UNCHANGED <<is_locked, drafts, draftSeq, files, proposals, access,
                   task, now>>
    /\ UNCHANGED <<rt, ws>>

\* rows of a table without the deleted keys
Without(f, ks) == [k \in (DOMAIN f) \ ks |-> f[k]]

PublishDraftDelete(s) ==
    LET d == loc[s].draft IN
    /\ pc[s] = "pub_delete"
    /\ LockFree(s, <<"drafts", d>>)
    /\ drafts' = Without(drafts, {d})
    /\ files' = [files EXCEPT ![d] = << >>]
    /\ Finish(s, "publish", "ok", d)
    /\ UNCHANGED <<is_locked, draftSeq, proposals, access, task, now>>
    /\ UNCHANGED <<rt, ws>>

\* -- WorkflowService.discard_draft
DiscardDraftCall(s, w, u) ==
    Begin(s, "dis_lock", [NoLoc EXCEPT !.wf = w, !.user = u])

DiscardDraftLock(s) ==
    LET w == loc[s].wf IN
    /\ pc[s] = "dis_lock"
    /\ IF WorkflowOwner(w) # loc[s].user
       THEN Finish(s, "discard", "Workflow not found or access denied", NoId)
       ELSE /\ LockFree(s, <<"workflows", w>>)
            /\ rowLock' = Acquire(s, {<<"workflows", w>>})
            /\ pc' = [pc EXCEPT ![s] = "dis_delete"]
            /\ UNCHANGED <<loc, result, last>>
    /\ UNCHANGED <<is_locked, drafts, draftSeq, files, proposals, access,
                   task, now>>
    /\ UNCHANGED <<rt, ws>>

DiscardDraftDelete(s) ==
    LET ds == DraftsOf(loc[s].wf) IN
    /\ pc[s] = "dis_delete"
    /\ \A d \in ds : LockFree(s, <<"drafts", d>>)
    /\ IF ds = {}
       THEN /\ Finish(s, "discard", "No draft found to discard", NoId)
            /\ UNCHANGED <<drafts, files>>
       ELSE /\ drafts' = Without(drafts, ds)
            /\ files' = [d \in DraftIds |->
                            IF d \in ds THEN << >> ELSE files[d]]
            /\ Finish(s, "discard", "ok", NoId)
    /\ UNCHANGED <<is_locked, draftSeq, proposals, access, task, now>>
    /\ UNCHANGED <<rt, ws>>

\* -- PostgreSQL deadlock detection
\* the rows session s is waiting for
Wanted(s) ==
    CASE pc[s] = "apr_wf" -> {<<"workflows", loc[s].wf>>}
      [] pc[s] = "pub_delete" -> {<<"drafts", loc[s].draft>>}
      [] pc[s] = "dis_delete" ->
            {<<"drafts", d>> : d \in DraftsOf(loc[s].wf)}
      [] OTHER -> {}

Blockers(s) == {t \in Sessions \ {s} : \E r \in Wanted(s) : <<r, t>> \in rowLock}

\* a waiting session whose blocker waits for it is aborted
DeadlockAbort(s) ==
    /\ \E t \in Blockers(s) : s \in Blockers(t)
    /\ Finish(s, IF pc[s] = "apr_wf" THEN "approve"
                 ELSE IF pc[s] = "pub_delete" THEN "publish" ELSE "discard",
              "deadlock detected", NoId)
    /\ UNCHANGED <<is_locked, drafts, draftSeq, files, proposals, access,
                   task, now>>
    /\ UNCHANGED <<rt, ws>>

\* -- the lock flag of a workflow
\* No statement of the services writes workflows.is_locked; they read it.
\* The flag is set and cleared by an UPDATE from outside them, which waits
\* for the row lock like any other write of the row.
SetLockFlag(w) ==
    /\ ~is_locked[w]
    /\ Free(<<"workflows", w>>)
    /\ is_locked' = [is_locked EXCEPT ![w] = TRUE]
    /\ last' = [op |-> "set_lock", outcome |-> "ok", id |-> NoId, wf |-> w]
    /\ UNCHANGED <<drafts, draftSeq, files, proposals, access, task, rowLock,
                   pc, loc, now, result>>
    /\ UNCHANGED <<rt, ws>>

ClearLockFlag(w) ==
    /\ is_locked[w]
    /\ Free(<<"workflows", w>>)
    /\ is_locked' = [is_locked EXCEPT ![w] = FALSE]
    /\ last' = [op |-> "clear_lock", outcome |-> "ok", id |-> NoId, wf |-> w]
    /\ UNCHANGED <<drafts, draftSeq, files, proposals, access, task, rowLock,
                   pc, loc, now, result>>
    /\ UNCHANGED <<rt, ws>>

\* -- approve_proposal when a statement of its write phase raises
\* the statements after the lock check: one upsert for each entry the loop
\* stores, then the UPDATE of the proposal
WriteStatements(g) ==
    IF g.is_null THEN 1 ELSE Len(UpsertSeq(g.value)) + 1

DatabaseError == "database error"

\* the connection commits each statement: what the statements before the
\* k-th wrote stays
ApproveProposalFailAutocommit(s, k) ==
    LET d == loc[s].draft
        g == loc[s].gfiles IN
    /\ pc[s] = "apr_wf"
    /\ LockFree(s, <<"workflows", loc[s].wf>>)
    /\ ~is_locked[loc[s].wf]
    /\ k \in 1..WriteStatements(g)
    /\ files' = [files EXCEPT
                    ![d] = ApplyFilesToDraft(files[d],
                                             FirstUpserts(g.value, k - 1))]
    /\ Finish(s, "approve", DatabaseError, loc[s].prop)
    /\ UNCHANGED <<is_locked, drafts, draftSeq, proposals, access, task, now>>
    /\ UNCHANGED <<rt, ws>>

\* The k-th statement raises a psycopg error: the exception leaves
\* "with conn.transaction()", which rolls back what the statements before
\* it wrote, and reaches the caller.
ApproveProposalFail(s, k) ==
    LET g == loc[s].gfiles IN
    /\ pc[s] = "apr_wf"
    /\ LockFree(s, <<"workflows", loc[s].wf>>)
    /\ ~is_locked[loc[s].wf]
    /\ k \in 1..WriteStatements(g)
    /\ Finish(s, "approve", DatabaseError, loc[s].prop)
    /\ UNCHANGED <<is_locked, drafts, draftSeq, files, proposals, access,
                   task, now>>
    /\ UNCHANGED <<rt, ws>>

\* -- DraftService.apply_files_to_draft
\* files_applied: the entries the loop did not skip
FilesApplied(f) == Cardinality(Applicable(f))

\* what an application returned, with its arguments
Applied(d, f, outcome, count) ==
    [op |-> "apply", outcome |-> outcome, id |-> count, draft |-> d,
     payload |-> f]

ApplyFilesToDraftCall(d, f) ==
    /\ IF ~Truthy(f)
       THEN /\ last' = Applied(d, f, "ok", 0)
            /\ UNCHANGED files
       ELSE IF d \notin DOMAIN drafts
       THEN /\ last' = Applied(d, f, "Draft not found", 0)
            /\ UNCHANGED files
       ELSE /\ Free(<<"drafts", d>>)
            /\ files' = [files EXCEPT ![d] = ApplyFilesToDraft(files[d], f)]
            /\ last' = Applied(d, f, "ok", FilesApplied(f))
    /\ UNCHANGED <<is_locked, drafts, draftSeq, proposals, access, task,
                   rowLock, pc, loc, now, result>>
    /\ UNCHANGED <<rt, ws>>

\* -- GET /proposals/{proposal_id}
\* the read that looks the proposal up before it checks the grant
ReadProposalDenying(p, u) ==
    /\ last' = Done("read",
                    IF ~Exists(p) THEN "Proposal not found"
                    ELSE IF <<p, u>> \notin access
                    THEN "Access denied to proposal"
                    ELSE "ok", p)
    /\ UNCHANGED <<is_locked, drafts, draftSeq, files, proposals, access,
                   task, rowLock, pc, loc, now, result>>
    /\ UNCHANGED <<rt, ws>>

ReadProposal(p, u) ==
    /\ last' = Done("read",
                    IF <<p, u>> \notin access THEN "Access denied to proposal"
                    ELSE IF ~Exists(p) THEN "Proposal not found"
                    ELSE "ok", p)
    /\ UNCHANGED <<is_locked, drafts, draftSeq, files, proposals, access,
                   task, rowLock, pc, loc, now, result>>
    /\ UNCHANGED <<rt, ws>>

ReadHttpStatus(outcome) ==
    IF outcome = "ok" THEN 200
    ELSE IF outcome = "Access denied to proposal" THEN 403
    ELSE 404

\* -- POST /workflows/{workflow_id}/refinements
CreateRefinementCall(s, w, u) ==
    Begin(s, "ref_wf", [NoLoc EXCEPT !.wf = w, !.user = u])

\* WorkflowService.get_workflow and the check of the request body; the
\* endpoint goes on with get_or_create_draft, and create_refinement_proposal
\* follows in a transaction of its own
CreateRefinementGetWorkflow(s) ==
    /\ pc[s] = "ref_wf"
    /\ IF WorkflowOwner(loc[s].wf) # loc[s].user
       THEN Finish(s, "create_refinement", "Workflow not found", NoId)
       ELSE \/ Finish(s, "create_refinement", "Invalid request", NoId)
            \/ /\ pc' = [pc EXCEPT ![s] = "goc_lock"]
               /\ UNCHANGED <<rowLock, loc, result, last>>
    /\ UNCHANGED <<is_locked, drafts, draftSeq, files, proposals, access,
                   task, now>>
    /\ UNCHANGED <<rt, ws>>

CreateHttpStatus(outcome) ==
    IF outcome = "ok" THEN 202
    ELSE IF outcome \in {"Workflow not found", "Draft not found",
                         "Workflow not found or access denied"} THEN 404
    ELSE IF outcome = "Access denied to draft" THEN 403
    ELSE 400

\* ------------------------------------------- runtime client and breaker
FailMax == 5
ResetTimeout == 60

\* what the network does with one request: a 200 response, a response with
\* another status, or no response (httpx.RequestError)
NetOutcomes == {"ok", "http_error", "transport"}

\* the exception the body of _call_deepagents_with_circuit_breaker ends
\* with: none after a 200, a plain Exception after another status of
\* /invoke, the httpx.RequestError of the transport otherwise
RaisedBy(o) ==
    CASE o = "ok" -> "none"
      [] o = "http_error" -> "Exception"
      [] OTHER -> "RequestError"

\* exclude=[httpx.HTTPStatusError]: the exceptions the breaker counts
IsSystemError(exc) == exc # "HTTPStatusError"

\* the breaker in the open state lets a call through once reset_timeout
\* seconds have passed since it opened
FailsFast(b) == b.state = "open" /\ b.elapsed < ResetTimeout

\* a breaker that keeps the time it has been open when a trial call fails
BreakerAfterNoCooldown(b, o) ==
    LET exc == RaisedBy(o)
        trial == b.state = "open"
        failed == b.awaits /\ exc # "none" /\ IsSystemError(exc)
        counter == IF failed THEN b.fail_counter + 1 ELSE 0
        opens == failed /\ (trial \/ counter >= FailMax)
    IN
    IF FailsFast(b)
    THEN [b EXCEPT !.calls = @ + 1,
                   !.streak = @,
                   !.lastcall = [outcome |-> o,
                                 raised |-> "CircuitBreakerError",
                                 sent |-> FALSE]]
    ELSE [b EXCEPT !.calls = @ + 1,
                   !.requests = @ + 1,
                   !.streak = IF o = "transport" THEN @ + 1 ELSE 0,
                   !.fail_counter = counter,
                   !.state = IF opens THEN "open" ELSE "closed",
                   !.elapsed = IF opens /\ trial THEN @ ELSE 0,
                   !.lastcall = [outcome |-> o,
                                 raised |-> IF opens
                                            THEN "CircuitBreakerError"
                                            ELSE exc,
                                 sent |-> TRUE]]

\* The decorator wraps an "async def". A breaker that only calls the
\* function gets a coroutine back without an exception and books a
\* success; the request is made when the caller awaits the coroutine, and
\* what it raises passes the breaker by. A breaker that awaits the coroutine
\* inside the guard sees what the body raises. b.awaits tells which of the
\* two the installed pybreaker does.
BreakerAfter(b, o) ==
    LET exc == RaisedBy(o)
        trial == b.state = "open"
        failed == b.awaits /\ exc # "none" /\ IsSystemError(exc)
        counter == IF failed THEN b.fail_counter + 1 ELSE 0
        opens == failed /\ (trial \/ counter >= FailMax)
    IN
    IF FailsFast(b)
    THEN [b EXCEPT !.calls = @ + 1,
                   !.streak = @,
                   !.lastcall = [outcome |-> o,
                                 raised |-> "CircuitBreakerError",
                                 sent |-> FALSE]]
    ELSE [b EXCEPT !.calls = @ + 1,
                   !.requests = @ + 1,
                   !.streak = IF o = "transport" THEN @ + 1 ELSE 0,
                   !.fail_counter = counter,
                   !.state = IF opens THEN "open" ELSE "closed",
                   !.elapsed = 0,
                   !.lastcall = [outcome |-> o,
                                 raised |-> IF opens
                                            THEN "CircuitBreakerError"
                                            ELSE exc,
                                 sent |-> TRUE]]

\* one guarded call of the runtime; o is what the network would answer
GuardedCall(o) ==
    /\ rt.calls < MaxCalls
    /\ rt' = BreakerAfter(rt, o)
    /\ UNCHANGED <<is_locked, drafts, draftSeq, files, proposals, access,
                   task, rowLock, pc, loc, now, result, last, ws>>

\* time passes while the breaker is open
BreakerTick ==
    /\ rt.state = "open"
    /\ rt.elapsed < ResetTimeout
    /\ rt' = [rt EXCEPT !.elapsed =
                  IF @ + TickSeconds > ResetTimeout THEN ResetTimeout
                  ELSE @ + TickSeconds]
    /\ UNCHANGED <<is_locked, drafts, draftSeq, files, proposals, access,
                   task, rowLock, pc, loc, now, result, last, ws>>

\* -- the processing task and the breaker
\* what the runtime does with the two requests of the task: 200 to both,
\* another status to /invoke, another status to /state, or no response
ProcessOutcomes ==
    {"ok", "invoke_http_error", "state_http_error", "transport"}

\* how the guarded body ends: after another status of /state it updates
\* the proposal itself and returns
NetOf(o) ==
    CASE o = "invoke_http_error" -> "http_error"
      [] o = "transport" -> "transport"
      [] OTHER -> "ok"

\* a task that does not catch the error of an open breaker
ProcessRefinementUncaught(p, o, f) ==
    LET b == BreakerAfter(rt, NetOf(o))
        raised == b.lastcall.raised
        r == IF raised # "none" THEN "error"
             ELSE IF o = "ok" THEN "result" ELSE "none"
        status == IF raised = "none" /\ o = "ok" THEN "completed"
                  ELSE "failed"
    IN
    /\ task[p] = "pending"
    /\ Free(<<"proposals", p>>)
    /\ rt' = b
    /\ proposals' =
           IF raised = "CircuitBreakerError" THEN proposals
           ELSE OrchUpdateProposalResults(
                    proposals, p, status, r,
                    IF status = "completed" THEN f ELSE EmptyFiles)
    /\ last' = Done("process", status, p)
    /\ task' = [task EXCEPT ![p] = "done"]
    /\ UNCHANGED <<is_locked, drafts, draftSeq, files, access, rowLock, pc,
                   loc, now, result, ws>>

\* OrchestrationService._process_refinement_async with the breaker: the
\* call fails fast, or makes its requests; whatever it raises is caught and
\* the proposal is updated to failed
ProcessRefinementGuarded(p, o, f) ==
    LET b == BreakerAfter(rt, NetOf(o))
        raised == b.lastcall.raised
        r == IF raised # "none" THEN "error"
             ELSE IF o = "ok" THEN "result" ELSE "none"
        status == IF raised = "none" /\ o = "ok" THEN "completed"
                  ELSE "failed"
    IN
    /\ task[p] = "pending"
    /\ Free(<<"proposals", p>>)
    /\ rt' = b
    /\ proposals' =
           OrchUpdateProposalResults(
               proposals, p, status, r,
               IF status = "completed" THEN f ELSE EmptyFiles)
    /\ last' = Done("process", status, p)
    /\ task' = [task EXCEPT ![p] = "done"]
    /\ UNCHANGED <<is_locked, drafts, draftSeq, files, access, rowLock, pc,
                   loc, now, result, ws>>

\* -- DeepAgentsRuntimeClient.cleanup_thread_data
\* what DELETE /cleanup/{thread_id} is answered with, or no answer
CleanupResponses == {"200", "204", "404", "500", "transport"}

\* a cleanup that lets the error of the transport through to its caller
CleanupRaising(resp) ==
    IF resp = "transport"
    THEN [raised |-> "RequestError", value |-> FALSE]
    ELSE [raised |-> "none", value |-> resp \in {"200", "204", "404"}]

\* the whole request is inside "try"; "except Exception" returns False
CleanupOutcome(resp) ==
    [raised |-> "none", value |-> resp \in {"200", "204", "404"}]

\* The method opens no database connection. No statement under src/ calls
\* it: it runs when something outside the services does.
CleanupThreadData(t, resp) ==
    /\ last' = [op |-> "cleanup", outcome |-> resp, id |-> t,
                returned |-> CleanupOutcome(resp)]
    /\ UNCHANGED <<is_locked, drafts, draftSeq, files, proposals, access,
                   task, rowLock, pc, loc, now, result, rt, ws>>

\* ----------------------------------------------------- streaming proxy
\* everything but the connection and the last outcome
Others == <<is_locked, drafts, draftSeq, files, proposals, access, task,
            rowLock, pc, loc, now, result, rt>>

\* a message of the runtime: text that json.loads rejects, or an event
\* with an event_type and a "data" that is a dict, with or without
\* "files", or null
Malformed ==
    [json |-> FALSE, event_type |-> NullStr, data_dict |-> FALSE,
     has_files |-> FALSE, files |-> EmptyFiles]
RuntimeEvent(type, is_dict, has_files, f) ==
    [json |-> TRUE, event_type |-> type, data_dict |-> is_dict,
     has_files |-> has_files, files |-> f]
StateUpdate(f) == RuntimeEvent("on_state_update", TRUE, TRUE, f)
StateNoFiles == RuntimeEvent("on_state_update", TRUE, FALSE, EmptyFiles)
StateNullData == RuntimeEvent("on_state_update", FALSE, FALSE, EmptyFiles)
EndEvent == RuntimeEvent("end", TRUE, FALSE, EmptyFiles)
\* {"event_type": "error", "data": {"error": "Failed to connect..."}}
ErrorEvent == RuntimeEvent("error", TRUE, FALSE, EmptyFiles)

RuntimeMessages ==
    {StateUpdate(FilesA), StateUpdate(FilesB), StateNoFiles, StateNullData,
     EndEvent, Malformed}
ClientMessages == {"m1", "m2"}
Tokens == {"missing", "invalid", "valid"}

\* OrchestrationService.get_proposal_by_thread_id, which can_access_thread
\* calls: the lookup ProposalService has under that name
OrchGetProposalByThreadId(t) == GetProposalByThreadId(t)

\* an access check that only looks for the proposal of the thread
CanAccessAnyThread(u, t) == OrchGetProposalByThreadId(t) # NoId

\* can_access_thread
CanAccessThread(u, t) ==
    LET p == OrchGetProposalByThreadId(t) IN
    IF p = NoId THEN FALSE ELSE <<p, u>> \in access

\* websocket.accept(): a client connects with a token for user u
StreamRefinement(tok, u, t) ==
    /\ ws.phase = "none"
    /\ ws' = [ws EXCEPT !.phase = "accepted", !.client = "open",
                        !.token = tok, !.user = u, !.thread = t]
    /\ UNCHANGED <<Others, last>>

\* validate_websocket_auth: no token, or one that validate_token rejects
ValidateWebsocketAuth ==
    /\ ws.phase = "accepted"
    /\ ws' = IF ws.token = "valid"
             THEN [ws EXCEPT !.phase = "authenticated"]
             ELSE [ws EXCEPT !.phase = "closed", !.close_code = 1008]
    /\ UNCHANGED <<Others, last>>

\* if not await can_access_thread(user_id, thread_id)
CheckThreadAccess ==
    /\ ws.phase = "authenticated"
    /\ ws' = IF CanAccessThread(ws.user, ws.thread)
             THEN [ws EXCEPT !.phase = "authorized"]
             ELSE [ws EXCEPT !.phase = "closed", !.close_code = 1008]
    /\ UNCHANGED <<Others, last>>

\* websockets.connect(ws_url): on an exception the client is sent an error
\* event and the endpoint returns
ConnectRuntime(ok) ==
    /\ ws.phase = "authorized"
    /\ ws' = IF ok
             THEN [ws EXCEPT !.phase = "proxy", !.runtime = "open",
                             !.c2d = "run", !.d2c = "run"]
             ELSE [ws EXCEPT !.phase = "returned",
                             !.runtime = "refused",
                             !.cout = Append(@, ErrorEvent)]
    /\ UNCHANGED <<Others, last>>

\* -- the two ends of the proxy
ClientSends(m) ==
    /\ ws.phase = "proxy" /\ ws.client = "open"
    /\ Len(ws.csent) < MaxClientMsgs
    /\ ws' = [ws EXCEPT !.csent = Append(@, m), !.cin = Append(@, m)]
    /\ UNCHANGED <<Others, last>>

ClientDisconnects ==
    /\ ws.phase = "proxy" /\ ws.client = "open"
    /\ ws' = [ws EXCEPT !.client = "gone"]
    /\ UNCHANGED <<Others, last>>

\* the runtime sends nothing after its end event
RuntimeSends(e) ==
    /\ ws.runtime = "open"
    /\ Len(ws.rsent) < MaxEvents
    /\ \A i \in 1..Len(ws.rsent) : ws.rsent[i] # EndEvent
    /\ ws' = [ws EXCEPT !.rsent = Append(@, e), !.rin = Append(@, e)]
    /\ UNCHANGED <<Others, last>>

\* the runtime closes its side, with a close frame or without
RuntimeCloses(clean) ==
    /\ ws.runtime = "open"
    /\ ws' = [ws EXCEPT !.runtime = IF clean THEN "closed_ok"
                                   ELSE "closed_error"]
    /\ UNCHANGED <<Others, last>>

\* -- client_to_deepagents: one turn of the loop
ClientToDeepagents ==
    /\ ws.c2d = "run"
    /\ IF ws.cin # << >>
       THEN ws' = IF ws.runtime = "open"
                  THEN [ws EXCEPT !.cin = Tail(@),
                                  !.rtout = Append(@, Head(ws.cin))]
                  ELSE [ws EXCEPT !.cin = Tail(@), !.c2d = "done"]
       ELSE /\ ws.client = "gone"
            /\ ws' = [ws EXCEPT !.c2d = "done"]
    /\ UNCHANGED <<Others, last>>

\* final_files after the event: event["data"]["files"] of an
\* on_state_update that has it
FilesAfter(snapshot, e) ==
    IF e.event_type = "on_state_update" /\ e.data_dict /\ e.has_files
    THEN e.files ELSE snapshot

\* a relay that forwards whatever it reads
ForwardableAlways(e) == TRUE

\* the event is handled without an exception up to send_json
Forwardable(e) ==
    /\ e.json
    /\ e.event_type = "on_state_update" => e.data_dict

\* -- deepagents_to_client: one turn of "async for message in deepagents_ws"
\* send_json to a client that is gone raises or is dropped by the server,
\* which "raises" decides; an exception anywhere in the turn is logged and
\* the loop goes on with the next message
DeepagentsToClient(raises) ==
    LET e == Head(ws.rin)
        sent == Forwardable(e) /\ ~raises
        ends == sent /\ e.event_type = "end"
        snapshot == IF e.json THEN FilesAfter(ws.final_files, e)
                    ELSE ws.final_files
    IN
    /\ ws.d2c = "run"
    /\ ws.rin # << >>
    /\ raises => ws.client = "gone"
    /\ ws' = [ws EXCEPT
                 !.rin = Tail(@),
                 !.final_files = snapshot,
                 !.cout = IF sent /\ ws.client = "open"
                          THEN Append(@, e) ELSE @,
                 !.tasks = IF ends
                           THEN Append(@, [kind |-> "files",
                                           files |-> snapshot])
                           ELSE @,
                 !.handed = IF ends THEN Append(@, snapshot) ELSE @,
                 !.d2c = IF ends THEN "done" ELSE "run"]
    /\ UNCHANGED <<Others, last>>

\* the stream of the runtime is over: the loop ends after a close frame,
\* and raises ConnectionClosedError without one, which starts the task
\* that marks the proposal failed
DeepagentsStreamEnds ==
    /\ ws.d2c = "run"
    /\ ws.rin = << >>
    /\ ws.runtime \in {"closed_ok", "closed_error"}
    /\ ws' = [ws EXCEPT
                 !.d2c = IF ws.runtime = "closed_error" THEN "error"
                         ELSE "done",
                 !.tasks = IF ws.runtime = "closed_error"
                           THEN Append(@, [kind |-> "failed",
                                           files |-> EmptyFiles])
                           ELSE @]
    /\ UNCHANGED <<Others, last>>

\* asyncio.gather returns when both relays have ended; "async with
\* websockets.connect" closes the runtime connection and the endpoint
\* returns without a close of its own
ProxyReturns ==
    /\ ws.phase = "proxy"
    /\ ws.c2d = "done" /\ ws.d2c \in {"done", "error"}
    /\ ws' = [ws EXCEPT !.phase = "returned", !.runtime = "torn_down"]
    /\ UNCHANGED <<Others, last>>

\* -- the background tasks: update_proposal_with_files and
\* update_proposal_status_to_failed
UpdateProposalWithFiles ==
    /\ ws.tasks # << >>
    /\ Head(ws.tasks).kind = "files"
    /\ UpdateProposalFilesFromStream(ws.thread, Head(ws.tasks).files)
    /\ ws' = [ws EXCEPT !.tasks = Tail(@)]
    /\ UNCHANGED rt

UpdateProposalStatusToFailed ==
    /\ ws.tasks # << >>
    /\ Head(ws.tasks).kind = "failed"
    /\ UpdateProposalStatusFromStream(ws.thread)
    /\ ws' = [ws EXCEPT !.tasks = Tail(@)]
    /\ UNCHANGED rt

\* ------------------------------------------------------- specification
Next ==
    \/ Tick
    \/ \E d \in DraftIds, u \in Users :
          Len(proposals) < MaxProposals /\ CreateRefinementProposal(d, u)
    \/ \E p \in ProposalIds : ProcessRefinementAsync(p)
    \/ \E p \in ProposalIds, u \in Users : RejectProposal(p, u)
    \/ \E p \in ProposalIds, r \in {"approved", "rejected"}, u \in Users :
          \E c \in TrailArgs(IF r = "approved"
                              THEN AddApprovalEvent(StoredTrail(p), u, 0)
                              ELSE AddRejectionEvent(StoredTrail(p), u)) :
             ResolveProposal(p, r, u, c)
    \/ \E d \in DraftIds, u \in Users :
          Len(proposals) < MaxProposals /\ CreateProposal(d, u)
    \/ \E p \in ProposalIds, status \in {"completed", "failed"},
          f \in RuntimeFiles :
          \E c \in TrailArgs(AddProcessingEvent(StoredTrail(p), status, f)) :
             UpdateProposalResultsCall(p, status, c, f)
    \/ \E t \in ThreadIds, f \in RuntimeFiles :
          UpdateProposalFilesFromStream(t, f) /\ UNCHANGED <<rt, ws>>
    \/ \E t \in ThreadIds :
          UpdateProposalStatusFromStream(t) /\ UNCHANGED <<rt, ws>>
    \/ \E s \in Sessions, w \in Workflows, u \in Users :
          GetOrCreateDraftCall(s, w, u)
    \/ \E s \in Sessions : GetOrCreateDraftLock(s)
    \/ \E s \in Sessions : GetOrCreateDraftInsert(s)
    \/ \E s \in Sessions, p \in ProposalIds, u \in Users :
          ApproveProposalCall(s, p, u)
    \/ \E s \in Sessions : ApproveProposalLock(s)
    \/ \E s \in Sessions : ApproveProposalCommit(s)
    \/ \E s \in Sessions, w \in Workflows, u \in Users :
          PublishDraftCall(s, w, u)
    \/ \E s \in Sessions : PublishDraftLock(s)
    \/ \E s \in Sessions : PublishDraftDelete(s)
    \/ \E s \in Sessions, w \in Workflows, u \in Users :
          DiscardDraftCall(s, w, u)
    \/ \E s \in Sessions : DiscardDraftLock(s)
    \/ \E s \in Sessions : DiscardDraftDelete(s)
    \/ \E s \in Sessions : DeadlockAbort(s)
    \/ \E p \in AllProposalIds, u \in Users : ReadProposal(p, u)
    \/ \E s \in Sessions, w \in WorkflowIds, u \in Users :
          CreateRefinementCall(s, w, u)
    \/ \E s \in Sessions : CreateRefinementGetWorkflow(s)
    \/ \E d \in DraftIds, f \in FilePayloads : ApplyFilesToDraftCall(d, f)
    \/ \E w \in Workflows : SetLockFlag(w)
    \/ \E w \in Workflows : ClearLockFlag(w)
    \/ \E s \in Sessions, k \in 1..(Len(PathOrder) + 1) :
          ApproveProposalFail(s, k)
    \/ \E o \in NetOutcomes : GuardedCall(o)
    \/ BreakerTick
    \/ \E t \in ThreadIds, resp \in CleanupResponses :
          CleanupThreadData(t, resp)
    \/ \E tok \in Tokens, u \in Users, t \in ThreadIds :
          StreamRefinement(tok, u, t)
    \/ ValidateWebsocketAuth
    \/ CheckThreadAccess
    \/ \E ok \in BOOLEAN : ConnectRuntime(ok)
    \/ \E m \in ClientMessages : ClientSends(m)
    \/ ClientDisconnects
    \/ \E e \in RuntimeMessages : RuntimeSends(e)
    \/ \E clean \in BOOLEAN : RuntimeCloses(clean)
    \/ ClientToDeepagents
    \/ \E raises \in BOOLEAN : DeepagentsToClient(raises)
    \/ DeepagentsStreamEnds
    \/ ProxyReturns
    \/ UpdateProposalWithFiles
    \/ UpdateProposalStatusToFailed

Spec == Init /\ [][Next]_vars

\* -- the proposal lifecycle on a workflow whose draft exists
InitLifecycle ==
    /\ is_locked = [w \in Workflows |-> FALSE]
    /\ drafts = (1 :> "w1")
    /\ draftSeq = 1
    /\ files = [d \in DraftIds |-> << >>]
    /\ proposals = << >>
    /\ access = {}
    /\ task = [p \in AllProposalIds |-> "none"]
    /\ rowLock = {}
    /\ pc = [s \in Sessions |-> "idle"]
    /\ loc = [s \in Sessions |-> NoLoc]
    /\ now = 0
    /\ result = [s \in Sessions |-> NoResult]
    /\ last = Done("init", "ok", NoId)
    /\ rt = NoRuntime
    /\ ws = NoSocket

NextLifecycle ==
    \/ Tick
    \/ \E d \in DraftIds, u \in Users :
          Len(proposals) < MaxProposals /\ CreateRefinementProposal(d, u)
    \/ \E p \in ProposalIds : ProcessRefinementAsync(p)
    \/ \E p \in ProposalIds, u \in Users : RejectProposal(p, u)
    \/ \E t \in ThreadIds, f \in RuntimeFiles :
          UpdateProposalFilesFromStream(t, f) /\ UNCHANGED <<rt, ws>>
    \/ \E t \in ThreadIds :
          UpdateProposalStatusFromStream(t) /\ UNCHANGED <<rt, ws>>
    \/ \E s \in Sessions, p \in ProposalIds, u \in Users :
          ApproveProposalCall(s, p, u)
    \/ \E s \in Sessions : ApproveProposalLock(s)
    \/ \E s \in Sessions : ApproveProposalCommit(s)

SpecLifecycle == InitLifecycle /\ [][NextLifecycle]_vars

\* -- the proposal lifecycle as the orchestration service alone drives it:
\* the polling task completes a proposal, users approve and reject it
NextPolling ==
    \/ Tick
    \/ \E d \in DraftIds, u \in Users :
          Len(proposals) < MaxProposals /\ CreateRefinementProposal(d, u)
    \/ \E p \in ProposalIds : ProcessRefinementAsync(p)
    \/ \E p \in ProposalIds, u \in Users : RejectProposal(p, u)
    \/ \E s \in Sessions, p \in ProposalIds, u \in Users :
          ApproveProposalCall(s, p, u)
    \/ \E s \in Sessions : ApproveProposalLock(s)
    \/ \E s \in Sessions : ApproveProposalCommit(s)

SpecPolling == InitLifecycle /\ [][NextPolling]_vars

\* -- completion of a proposal by the polling task and by the stream path
NextStream ==
    \/ Tick
    \/ \E d \in DraftIds, u \in Users :
          Len(proposals) < MaxProposals /\ CreateRefinementProposal(d, u)
    \/ \E p \in ProposalIds : ProcessRefinementAsync(p)
    \/ \E p \in ProposalIds, u \in Users : RejectProposal(p, u)
    \/ \E t \in ThreadIds, f \in RuntimeFiles :
          UpdateProposalFilesFromStream(t, f) /\ UNCHANGED <<rt, ws>>
    \/ \E t \in ThreadIds :
          UpdateProposalStatusFromStream(t) /\ UNCHANGED <<rt, ws>>

SpecStream == InitLifecycle /\ [][NextStream]_vars

\* -- several refinement requests: creation, polling results, stream events
NextThreads ==
    \/ \E d \in DraftIds, u \in Users :
          Len(proposals) < MaxRequests /\ CreateRefinementProposal(d, u)
    \/ \E p \in RequestIds : ProcessRefinementAsync(p)
    \/ \E t \in ThreadIds, f \in RuntimeFiles :
          UpdateProposalFilesFromStream(t, f) /\ UNCHANGED <<rt, ws>>
    \/ \E t \in ThreadIds :
          UpdateProposalStatusFromStream(t) /\ UNCHANGED <<rt, ws>>

SpecThreads == InitLifecycle /\ [][NextThreads]_vars

\* -- file payloads applied to the drafts of two workflows
InitApply ==
    /\ is_locked = [w \in Workflows |-> FALSE]
    /\ drafts = (1 :> "w1" @@ 2 :> "w2")
    /\ draftSeq = 2
    /\ files = [d \in DraftIds |-> << >>]
    /\ proposals = << >>
    /\ access = {}
    /\ task = [p \in AllProposalIds |-> "none"]
    /\ rowLock = {}
    /\ pc = [s \in Sessions |-> "idle"]
    /\ loc = [s \in Sessions |-> NoLoc]
    /\ now = 0
    /\ result = [s \in Sessions |-> NoResult]
    /\ last = Done("get_or_create", "ok", 2)
    /\ rt = NoRuntime
    /\ ws = NoSocket

NextApply ==
    \E d \in DraftIds, f \in FilePayloads : ApplyFilesToDraftCall(d, f)

SpecApply == InitApply /\ [][NextApply]_vars

\* -- the draft lifecycle of a workflow
NextDrafts ==
    \/ \E s \in Sessions, w \in Workflows, u \in Users :
          GetOrCreateDraftCall(s, w, u)
    \/ \E s \in Sessions : GetOrCreateDraftLock(s)
    \/ \E s \in Sessions : GetOrCreateDraftInsert(s)
    \/ \E s \in Sessions, w \in Workflows, u \in Users :
          PublishDraftCall(s, w, u)
    \/ \E s \in Sessions : PublishDraftLock(s)
    \/ \E s \in Sessions : PublishDraftDelete(s)
    \/ \E s \in Sessions, w \in Workflows, u \in Users :
          DiscardDraftCall(s, w, u)
    \/ \E s \in Sessions : DiscardDraftLock(s)
    \/ \E s \in Sessions : DiscardDraftDelete(s)

SpecDrafts == Init /\ [][NextDrafts]_vars

\* -- concurrent get_or_create_draft calls only
NextGetOrCreate ==
    \/ \E s \in Sessions, w \in Workflows, u \in Users :
          GetOrCreateDraftCall(s, w, u)
    \/ \E s \in Sessions : GetOrCreateDraftLock(s)
    \/ \E s \in Sessions : GetOrCreateDraftInsert(s)

SpecGetOrCreate == Init /\ [][NextGetOrCreate]_vars

\* -- concurrent approve_proposal calls on one completed proposal
CompletedProposal(f) ==
    [draft_id |-> 1, thread_id |-> 1, status |-> "completed",
     generated_files |-> StoredFiles(f), completed_at |-> 0,
     resolved_by_user_id |-> NullStr, resolved_at |-> NullTime,
     resolution |-> NullStr, created_by_user_id |-> "u1",
     ai_generated_content |-> DumpResult("result")]

InitApprove ==
    /\ is_locked = [w \in Workflows |-> FALSE]
    /\ drafts = (1 :> "w1")
    /\ draftSeq = 1
    /\ \E g \in {EmptyFiles, FilesA} :
          files = [d \in DraftIds |->
                      IF d = 1 THEN ApplyFilesToDraft(<< >>, g) ELSE << >>]
    /\ \E f \in FilePayloads : proposals = <<CompletedProposal(f)>>
    /\ access = {<<1, "u1">>}
    /\ task = [p \in AllProposalIds |-> IF p = 1 THEN "done" ELSE "none"]
    /\ rowLock = {}
    /\ pc = [s \in Sessions |-> "idle"]
    /\ loc = [s \in Sessions |-> NoLoc]
    /\ now = 0
    /\ result = [s \in Sessions |-> NoResult]
    /\ last = Done("process", "completed", 1)
    /\ rt = NoRuntime
    /\ ws = NoSocket

NextApprove ==
    \/ Tick
    \/ \E s \in Sessions : ApproveProposalCall(s, 1, "u1")
    \/ \E s \in Sessions : ApproveProposalLock(s)
    \/ \E s \in Sessions : ApproveProposalCommit(s)

SpecApprove == InitApprove /\ [][NextApprove]_vars

\* -- approval of a completed proposal on a draft that has files already
InitMerge ==
    /\ is_locked = [w \in Workflows |-> FALSE]
    /\ drafts = (1 :> "w1")
    /\ draftSeq = 1
    /\ \E g \in {EmptyFiles, FilesA, FilesD} :
          files = [d \in DraftIds |->
                      IF d = 1 THEN ApplyFilesToDraft(<< >>, g) ELSE << >>]
    /\ \E f \in FilePayloads \cup {FilesD} :
          proposals = <<CompletedProposal(f)>>
    /\ access = {<<1, "u1">>}
    /\ task = [p \in AllProposalIds |-> IF p = 1 THEN "done" ELSE "none"]
    /\ rowLock = {}
    /\ pc = [s \in Sessions |-> "idle"]
    /\ loc = [s \in Sessions |-> NoLoc]
    /\ now = 0
    /\ result = [s \in Sessions |-> NoResult]
    /\ last = Done("process", "completed", 1)
    /\ rt = NoRuntime
    /\ ws = NoSocket

SpecMerge == InitMerge /\ [][NextApprove]_vars

\* -- what a user learns of proposals and workflows: every endpoint of the
\* refinement router, called for ids with and without a row, when one
\* completed proposal exists
InitAccess ==
    /\ is_locked = [w \in Workflows |-> FALSE]
    /\ drafts = (1 :> "w1")
    /\ draftSeq = 1
    /\ files = [d \in DraftIds |-> << >>]
    /\ proposals = <<CompletedProposal(FilesA)>>
    /\ access = {<<1, "u1">>}
    /\ task = [p \in AllProposalIds |-> IF p = 1 THEN "done" ELSE "none"]
    /\ rowLock = {}
    /\ pc = [s \in Sessions |-> "idle"]
    /\ loc = [s \in Sessions |-> NoLoc]
    /\ now = 0
    /\ result = [s \in Sessions |-> NoResult]
    /\ last = Done("process", "completed", 1)
    /\ rt = NoRuntime
    /\ ws = NoSocket

NextAccess ==
    \/ \E p \in AllProposalIds, u \in Users : RejectProposal(p, u)
    \/ \E p \in AllProposalIds, u \in Users : ReadProposal(p, u)
    \/ \E s \in Sessions, p \in AllProposalIds, u \in Users :
          ApproveProposalCall(s, p, u)
    \/ \E s \in Sessions : ApproveProposalLock(s)
    \/ \E s \in Sessions : ApproveProposalCommit(s)
    \/ \E s \in Sessions, w \in WorkflowIds, u \in Users :
          CreateRefinementCall(s, w, u)
    \/ \E s \in Sessions : CreateRefinementGetWorkflow(s)
    \/ \E s \in Sessions : GetOrCreateDraftLock(s)
    \/ \E s \in Sessions : GetOrCreateDraftInsert(s)

SpecAccess == InitAccess /\ [][NextAccess]_vars

\* -- a workflow whose lock flag is set and cleared while its draft is
\* requested, written and approved; the completed proposal holds two files
InitLock ==
    /\ is_locked = [w \in Workflows |-> FALSE]
    /\ drafts = (1 :> "w1")
    /\ draftSeq = 1
    /\ files = [d \in DraftIds |-> << >>]
    /\ proposals = <<CompletedProposal(FilesD)>>
    /\ access = {<<1, "u1">>}
    /\ task = [p \in AllProposalIds |-> IF p = 1 THEN "done" ELSE "none"]
    /\ rowLock = {}
    /\ pc = [s \in Sessions |-> "idle"]
    /\ loc = [s \in Sessions |-> NoLoc]
    /\ now = 0
    /\ result = [s \in Sessions |-> NoResult]
    /\ last = Done("process", "completed", 1)
    /\ rt = NoRuntime
    /\ ws = NoSocket

NextLock ==
    \/ \E w \in Workflows : SetLockFlag(w)
    \/ \E w \in Workflows : ClearLockFlag(w)
    \/ \E s \in Sessions, w \in WorkflowIds, u \in Users :
          GetOrCreateDraftCall(s, w, u)
    \/ \E s \in Sessions : GetOrCreateDraftLock(s)
    \/ \E s \in Sessions : GetOrCreateDraftInsert(s)
    \/ \E s \in Sessions, p \in AllProposalIds, u \in Users :
          ApproveProposalCall(s, p, u)
    \/ \E s \in Sessions : ApproveProposalLock(s)
    \/ \E s \in Sessions : ApproveProposalCommit(s)
    \/ \E s \in Sessions, k \in 1..(Len(PathOrder) + 1) :
          ApproveProposalFail(s, k)
    \/ \E d \in DraftIds : ApplyFilesToDraftCall(d, FilesA)

SpecLock == InitLock /\ [][NextLock]_vars

\* -- approval and rejection of a completed proposal, and cleanup calls
NextCleanup ==
    \/ \E s \in Sessions : ApproveProposalCall(s, 1, "u1")
    \/ \E s \in Sessions : ApproveProposalLock(s)
    \/ \E s \in Sessions : ApproveProposalCommit(s)
    \/ \E u \in Users : RejectProposal(1, u)
    \/ \E t \in ThreadIds, resp \in CleanupResponses :
          CleanupThreadData(t, resp)

SpecCleanup == InitApprove /\ [][NextCleanup]_vars

\* approve_proposal and reject_proposal run to their end; a cleanup runs
\* only if something calls it
SpecCleanupFair ==
    /\ SpecCleanup
    /\ \A s \in Sessions :
          WF_vars(ApproveProposalLock(s) \/ ApproveProposalCommit(s))

\* -- one client connection to the stream of a proposal that is processing
ProcessingProposal ==
    [CompletedProposal(EmptyFiles) EXCEPT !.status = "processing",
                                          !.completed_at = NullTime]

InitProxy ==
    /\ is_locked = [w \in Workflows |-> FALSE]
    /\ drafts = (1 :> "w1")
    /\ draftSeq = 1
    /\ files = [d \in DraftIds |-> << >>]
    /\ proposals = <<ProcessingProposal>>
    /\ access = {<<1, "u1">>}
    /\ task = [p \in AllProposalIds |-> "none"]
    /\ rowLock = {}
    /\ pc = [s \in Sessions |-> "idle"]
    /\ loc = [s \in Sessions |-> NoLoc]
    /\ now = 0
    /\ result = [s \in Sessions |-> NoResult]
    /\ last = Done("create", "ok", 1)
    /\ rt = NoRuntime
    /\ ws = NoSocket

NextProxy ==
    \/ \E tok \in Tokens, u \in Users, t \in ThreadIds :
          StreamRefinement(tok, u, t)
    \/ ValidateWebsocketAuth
    \/ CheckThreadAccess
    \/ \E ok \in BOOLEAN : ConnectRuntime(ok)
    \/ \E m \in ClientMessages : ClientSends(m)
    \/ ClientDisconnects
    \/ \E e \in RuntimeMessages : RuntimeSends(e)
    \/ \E clean \in BOOLEAN : RuntimeCloses(clean)
    \/ ClientToDeepagents
    \/ \E raises \in BOOLEAN : DeepagentsToClient(raises)
    \/ DeepagentsStreamEnds
    \/ ProxyReturns
    \/ UpdateProposalWithFiles
    \/ UpdateProposalStatusToFailed

SpecProxy == InitProxy /\ [][NextProxy]_vars

\* the endpoint, its two relays and its background tasks run when they can;
\* the client and the runtime send and close when they choose to
SpecProxyFair ==
    /\ SpecProxy
    /\ WF_vars(ValidateWebsocketAuth)
    /\ WF_vars(CheckThreadAccess)
    /\ WF_vars(ClientToDeepagents)
    /\ WF_vars(\E raises \in BOOLEAN : DeepagentsToClient(raises))
    /\ WF_vars(DeepagentsStreamEnds)
    /\ WF_vars(ProxyReturns)
    /\ WF_vars(UpdateProposalWithFiles)
    /\ WF_vars(UpdateProposalStatusToFailed)

\* -- guarded calls of the runtime, under either behaviour of the decorator
InitBreaker ==
    /\ Init!1 /\ Init!2 /\ Init!3 /\ Init!4 /\ Init!5 /\ Init!6 /\ Init!7
    /\ Init!8 /\ Init!9 /\ Init!10 /\ Init!11 /\ Init!12 /\ Init!13
    /\ \E a \in BOOLEAN : rt = [NoRuntime EXCEPT !.awaits = a]
    /\ ws = NoSocket

NextBreaker ==
    \/ \E o \in NetOutcomes : GuardedCall(o)
    \/ BreakerTick

SpecBreaker == InitBreaker /\ [][NextBreaker]_vars

\* -- the stored record of a proposal: creation by the engine and by the
\* store, results of the polling task and of the store, resolutions
NextTrail ==
    \/ Tick
    \/ \E d \in DraftIds, u \in Users :
          Len(proposals) < MaxProposals /\ CreateRefinementProposal(d, u)
    \/ \E d \in DraftIds, u \in Users :
          Len(proposals) < MaxProposals /\ CreateProposal(d, u)
    \/ \E p \in ProposalIds : ProcessRefinementAsync(p)
    \/ \E p \in ProposalIds, status \in {"completed", "failed"},
          f \in RuntimeFiles :
          \E c \in TrailArgs(AddProcessingEvent(StoredTrail(p), status, f)) :
             UpdateProposalResultsCall(p, status, c, f)
    \/ \E p \in ProposalIds, r \in {"approved", "rejected"}, u \in Users :
          \E c \in TrailArgs(IF r = "approved"
                              THEN AddApprovalEvent(StoredTrail(p), u, 0)
                              ELSE AddRejectionEvent(StoredTrail(p), u)) :
             ResolveProposal(p, r, u, c)
    \/ \E p \in ProposalIds, u \in Users : RejectProposal(p, u)

SpecTrail == InitLifecycle /\ [][NextTrail]_vars

\* -- the processing task of a proposal behind the breaker, with other
\* guarded calls before it
InitProcess ==
    /\ Init!1 /\ drafts = (1 :> "w1") /\ draftSeq = 1
    /\ Init!4 /\ Init!5 /\ Init!6 /\ Init!7
    /\ Init!8 /\ Init!9 /\ Init!10 /\ Init!11 /\ Init!12 /\ Init!13
    /\ \E a \in BOOLEAN : rt = [NoRuntime EXCEPT !.awaits = a]
    /\ ws = NoSocket

NextProcess ==
    \/ \E d \in DraftIds, u \in Users :
          Len(proposals) < MaxProposals /\ CreateRefinementProposal(d, u)
    \/ \E o \in NetOutcomes : GuardedCall(o)
    \/ BreakerTick
    \/ \E p \in ProposalIds, o \in ProcessOutcomes, f \in RuntimeFiles :
          ProcessRefinementGuarded(p, o, f)
    \/ \E p \in ProposalIds, u \in Users : RejectProposal(p, u)

SpecProcess == InitProcess /\ [][NextProcess]_vars

\* the event loop runs the task that create_refinement_proposal started
SpecProcessFair ==
    /\ SpecProcess
    /\ \A p \in ProposalIds :
          WF_vars(\E o \in ProcessOutcomes, f \in RuntimeFiles :
                     ProcessRefinementGuarded(p, o, f))

\* -- approve, get-or-create, publish and discard on one workflow whose
\* draft has a completed proposal
NextWorkflow ==
    \/ \E s \in Sessions : ApproveProposalCall(s, 1, "u1")
    \/ \E s \in Sessions : ApproveProposalLock(s)
    \/ \E s \in Sessions : ApproveProposalCommit(s)
    \/ \E s \in Sessions : GetOrCreateDraftCall(s, "w1", "u1")
    \/ \E s \in Sessions : GetOrCreateDraftLock(s)
    \/ \E s \in Sessions : GetOrCreateDraftInsert(s)
    \/ \E s \in Sessions : PublishDraftCall(s, "w1", "u1")
    \/ \E s \in Sessions : PublishDraftLock(s)
    \/ \E s \in Sessions : PublishDraftDelete(s)
    \/ \E s \in Sessions : DiscardDraftCall(s, "w1", "u1")
    \/ \E s \in Sessions : DiscardDraftLock(s)
    \/ \E s \in Sessions : DiscardDraftDelete(s)
    \/ \E s \in Sessions : DeadlockAbort(s)

SpecWorkflow == InitApprove /\ [][NextWorkflow]_vars

\* -- approvals of two completed proposals on the same draft, whose file
\* sets share a path
InitTwoApprovals ==
    /\ is_locked = [w \in Workflows |-> FALSE]
    /\ drafts = (1 :> "w1")
    /\ draftSeq = 1
    /\ files = [d \in DraftIds |-> << >>]
    /\ proposals = <<CompletedProposal(FilesD),
                     [CompletedProposal(FilesB) EXCEPT !.thread_id = 2]>>
    /\ access = {<<1, "u1">>, <<2, "u1">>}
    /\ task = [p \in AllProposalIds |-> "done"]
    /\ rowLock = {}
    /\ pc = [s \in Sessions |-> "idle"]
    /\ loc = [s \in Sessions |-> NoLoc]
    /\ now = 0
    /\ result = [s \in Sessions |-> NoResult]
    /\ last = Done("process", "completed", 2)
    /\ rt = NoRuntime
    /\ ws = NoSocket

NextTwoApprovals ==
    \/ Tick
    \/ \E s \in Sessions, p \in AllProposalIds :
          ApproveProposalCall(s, p, "u1")
    \/ \E s \in Sessions : ApproveProposalLock(s)
    \/ \E s \in Sessions : ApproveProposalCommit(s)

SpecTwoApprovals == InitTwoApprovals /\ [][NextTwoApprovals]_vars

\* -- calls of the audit trail builder on records of every form
NextAudit ==
    \/ Tick
    \/ \E x \in TrailInputs, status \in {"completed", "failed"},
          f \in {EmptyFiles, FilesA} : AddProcessingEventCall(x, status, f)
    \/ \E x \in TrailInputs, u \in Users, n \in {0, 1} :
          AddApprovalEventCall(x, u, n)
    \/ \E x \in TrailInputs, u \in Users : AddRejectionEventCall(x, u)
    \/ \E x \in TrailInputs : GetAuditSummaryCall(x)

SpecAudit == Init /\ [][NextAudit]_vars

\* ------------------------------------------------------------- claims
NotReady == "Proposal is not ready for approval"
NotFound == "Proposal not found"

\* the status code the approve endpoint answers with (api/routers/refinements)
ApproveHttpStatus(outcome) ==
    IF outcome = "ok" THEN 200
    ELSE IF outcome = NotFound THEN 404
    ELSE IF outcome = NotReady THEN 400
    ELSE 500

Approved(s) == result[s].op = "approve" /\ result[s].outcome = "ok"

\* session s ends its approve call in this step
ApproveEnds(s) == pc[s] \in {"apr_lock", "apr_wf"} /\ pc'[s] = "done"

C1_State ==
    (\E s \in Sessions : pc[s] = "done") =>
        /\ Cardinality({s \in Sessions : Approved(s)}) = 1
        /\ \A s \in Sessions :
              pc[s] = "done" /\ ~Approved(s) =>
                  /\ result[s].op = "approve"
                  /\ result[s].outcome = NotReady
                  /\ ApproveHttpStatus(result[s].outcome) = 400

C1_Step ==
    \A s \in Sessions :
        ApproveEnds(s) =>
            IF result'[s].outcome = "ok"
            THEN /\ proposals[1].status = "completed"
                 /\ files' = [files EXCEPT ![1] = ApplyFilesToDraft(
                                 files[1], proposals[1].generated_files.value)]
            ELSE files' = files

\* C1: of any number of concurrent approve_proposal calls on one completed
\* proposal exactly one succeeds and merges the generated files into the
\* draft, once; every other call fails with "not ready for approval" (400)
\* and leaves the draft's files as they are.
C1_ExactlyOneApproval == []C1_State /\ [][C1_Step]_vars

\* two calls have ended, one applied a non-empty file set, the other failed
C1_Witness ==
    \E s, t \in Sessions :
        /\ Approved(s)
        /\ result[t].op = "approve" /\ result[t].outcome = NotReady
        /\ proposals[1].status = "approved"
        /\ ~proposals[1].generated_files.is_null
        /\ "a.py" \in DOMAIN files[1]

\* session s passes the status check of its approve call in this step
ApproveChecks(s) == pc[s] = "apr_lock" /\ pc'[s] # "apr_lock"

\* C2: approve_proposal by a user with access, on a proposal whose status is
\* not "completed" (processing, failed, approved, rejected), raises "Proposal
\* is not ready for approval", which the endpoint answers as 400, and leaves
\* the drafts, their files and the proposal as they are.
C2_ApproveNeedsCompleted ==
    [][\A s \in Sessions :
          (/\ ApproveChecks(s)
           /\ Joined(loc[s].prop, loc[s].user)
           /\ proposals[loc[s].prop].status # "completed") =>
              /\ pc'[s] = "done"
              /\ result'[s].op = "approve"
              /\ result'[s].outcome = NotReady
              /\ ApproveHttpStatus(result'[s].outcome) = 400
              /\ files' = files
              /\ drafts' = drafts
              /\ proposals' = proposals]_vars

\* an approval of a failed proposal was refused
C2_Witness ==
    \E s \in Sessions :
        /\ result[s].op = "approve"
        /\ result[s].outcome = NotReady
        /\ Exists(result[s].id)
        /\ proposals[result[s].id].status = "failed"

\* C3: reject_proposal leaves the drafts and every draft's files as they
\* are, whatever the proposal's generated files.
C3_RejectKeepsDraft ==
    [][\A p \in ProposalIds, u \in Users :
          RejectProposal(p, u) => files' = files /\ drafts' = drafts]_vars

\* a proposal with generated files was rejected; its draft has files
C3_Witness ==
    /\ last = Done("reject", "ok", 1)
    /\ rt = NoRuntime
    /\ ws = NoSocket
    /\ proposals[1].status = "rejected"
    /\ ~proposals[1].generated_files.is_null
    /\ files[1] # << >>
    /\ proposals[1].generated_files.value = FilesB
    /\ files[1] = ApplyFilesToDraft(<< >>, FilesA)

\* C4: after approve_proposal succeeds, every file p of the generated files
\* is in the draft with the file's content (a list joined with newlines),
\* and the proposal has status "resolved" with resolution "approved".
C4_ApproveResolves ==
    [][\A s \in Sessions :
          (ApproveEnds(s) /\ result'[s].outcome = "ok") =>
              LET p == loc[s].prop
                  d == loc[s].draft
                  F == proposals[p].generated_files.value IN
              /\ \A path \in Applicable(F) :
                    /\ path \in DOMAIN files'[d]
                    /\ files'[d][path].content =
                           IF F[path].content.ctype = "list"
                           THEN JoinLines(F[path].content.lines)
                           ELSE ContentToText(F[path].content)
              /\ proposals'[p].status = "resolved"
              /\ proposals'[p].resolution = "approved"]_vars

\* C5 as stated: the stored generated_files equal F, the empty F included
C5_StreamStoresF ==
    [][\A t \in ThreadIds, f \in RuntimeFiles :
          IF GetProposalByThreadId(t) = NoId
          THEN UpdateProposalFilesFromStream(t, f) =>
                  /\ last'.outcome = NotFound
                  /\ proposals' = proposals
          ELSE UpdateProposalFilesFromStream(t, f) =>
                  LET p == GetProposalByThreadId(t) IN
                  /\ proposals'[p].status = "completed"
                  /\ proposals'[p].generated_files =
                         [is_null |-> FALSE, value |-> f]]_vars

\* C5: update_proposal_files_from_stream(T, F) sets the proposal with thread
\* id T to "completed"; its generated_files equal F when F is not empty
\* and are NULL when F is empty.  Without a proposal with thread id T the
\* call reports "Proposal not found" and changes no proposal.
C5_StreamStoresNonEmptyF ==
    [][\A t \in ThreadIds, f \in RuntimeFiles :
          IF GetProposalByThreadId(t) = NoId
          THEN UpdateProposalFilesFromStream(t, f) =>
                  /\ last'.outcome = NotFound
                  /\ proposals' = proposals
          ELSE UpdateProposalFilesFromStream(t, f) =>
                  LET p == GetProposalByThreadId(t) IN
                  /\ proposals'[p].status = "completed"
                  /\ proposals'[p].completed_at = now
                  /\ proposals'[p].generated_files =
                         IF f = EmptyFiles THEN NullFiles
                         ELSE [is_null |-> FALSE, value |-> f]]_vars

\* the stream path completed a proposal whose polling task is still pending
C5_Witness ==
    /\ last = Done("stream_files", "ok", 1)
    /\ rt = NoRuntime
    /\ ws = NoSocket
    /\ task[1] = "pending"
    /\ proposals[1].status = "completed"
    /\ proposals[1].generated_files = [is_null |-> FALSE, value |-> FilesB]

GotDraft(s) == result[s].op = "get_or_create" /\ result[s].outcome = "ok"

\* C6: concurrent get_or_create_draft calls by the owner of a workflow that
\* has no draft insert one draft row, and every call returns the id of that
\* one row.
C6_OneDraftInserted ==
    /\ draftSeq = Cardinality(DOMAIN drafts)
    /\ \A w \in Workflows : Cardinality(DraftsOf(w)) <= 1
    /\ \A s \in Sessions :
          GotDraft(s) => result[s].id \in DOMAIN drafts
    /\ \A s, t \in Sessions :
          (/\ GotDraft(s) /\ GotDraft(t)
           /\ drafts[result[s].id] = drafts[result[t].id]) =>
              result[s].id = result[t].id

\* two calls for one workflow have returned the one draft of the workflow
C6_Witness ==
    \E s, t \in Sessions :
        /\ s # t
        /\ GotDraft(s) /\ GotDraft(t)
        /\ result[s].id = result[t].id
        /\ drafts[result[s].id] = "w1"
        /\ DraftsOf("w1") = {result[s].id}

\* C7: under get_or_create_draft, publish_draft and discard_draft every
\* workflow has at most one draft row at any time.
C7_AtMostOneLiveDraft ==
    \A w \in Workflows : Cardinality(DraftsOf(w)) <= 1

\* a workflow's draft was published or discarded and a new one created
C7_Witness ==
    /\ draftSeq = 2
    /\ DraftsOf("w1") = {2}
    /\ \E s \in Sessions :
          result[s].op \in {"publish", "discard"} /\ result[s].outcome = "ok"

\* this step is an update of a proposal's results, from the polling task
\* or from the stream path
UpdatesResults ==
    \/ \E p \in ProposalIds : ProcessRefinementAsync(p)
    \/ \E t \in ThreadIds, f \in RuntimeFiles :
          UpdateProposalFilesFromStream(t, f)
    \/ \E t \in ThreadIds : UpdateProposalStatusFromStream(t)

\* processing, then completed or failed, then resolved
Stage(status) ==
    CASE status = "processing" -> 0
      [] status \in {"completed", "failed"} -> 1
      [] OTHER -> 2

\* C8: an update of a proposal's results never moves the proposal's status
\* back to an earlier stage (resolved to completed or failed) nor from
\* completed to failed.
C8_UpdateNeverRegresses ==
    [][UpdatesResults =>
          \A p \in DOMAIN proposals :
              /\ Stage(proposals'[p].status) >= Stage(proposals[p].status)
              /\ ~(/\ proposals[p].status = "completed"
                   /\ proposals'[p].status = "failed")]_vars

\* the proposal has been approved or rejected
Resolved(p) == proposals[p].status \in {"resolved", "approved", "rejected"}

Resolution(p) ==
    <<proposals[p].status, proposals[p].resolution,
      proposals[p].resolved_by_user_id, proposals[p].resolved_at>>

\* C9: once a proposal is resolved, every later approve or reject call
\* fails and leaves its resolution, resolver and resolution time as they
\* are.
C9_ResolvedOnce ==
    [][/\ \A p \in DOMAIN proposals, u \in Users :
             (Resolved(p) /\ RejectProposal(p, u)) =>
                 /\ last'.outcome # "ok"
                 /\ Resolution(p)' = Resolution(p)
       /\ \A s \in Sessions :
             (/\ ApproveChecks(s)
              /\ Exists(loc[s].prop)
              /\ Resolved(loc[s].prop)) =>
                 /\ pc'[s] = "done"
                 /\ result'[s].outcome # "ok"
                 /\ Resolution(loc[s].prop)' = Resolution(loc[s].prop)]_vars

\* C10: a proposal is resolved exactly when its resolution time, resolver
\* and resolution are all set, and then the resolution is "approved" or
\* "rejected".
C10_ResolvedFieldsTogether ==
    \A p \in DOMAIN proposals :
        /\ Resolved(p) <=>
              /\ proposals[p].resolved_at # NullTime
              /\ proposals[p].resolved_by_user_id # NullStr
              /\ proposals[p].resolution # NullStr
        /\ Resolved(p) => proposals[p].resolution \in {"approved", "rejected"}

\* C11: every proposal with status completed, failed or resolved (also one
\* rejected while it was processing) has completed_at set, and every
\* proposal with status processing has completed_at NULL.
C11_CompletedAtFollowsStatus ==
    \A p \in DOMAIN proposals :
        /\ (proposals[p].status \in {"completed", "failed"} \/ Resolved(p)) =>
              proposals[p].completed_at # NullTime
        /\ proposals[p].status = "processing" =>
              proposals[p].completed_at = NullTime

C12_State ==
    \A p \in DOMAIN proposals :
        proposals[p].status = "processing" =>
            proposals[p].generated_files.is_null

C12_Step ==
    \A p \in DOMAIN proposals :
        (/\ proposals[p].generated_files.is_null
         /\ ~proposals'[p].generated_files.is_null) =>
            /\ proposals[p].status = "processing"
            /\ proposals'[p].status # "processing"

\* C12: a proposal with status processing has generated_files NULL, and
\* generated_files becomes non-NULL only in a step that also moves the
\* status out of processing.
C12_FilesOnlyOnLeavingProcessing == []C12_State /\ [][C12_Step]_vars

\* proposals a reverse lookup by thread id t can return
WithThread(t) == {p \in DOMAIN proposals : proposals[p].thread_id = t}

\* C13: no two proposals share a thread id, so the lookup by thread id
\* returns at most one proposal.
C13_ThreadIdUnique ==
    /\ \A p, q \in DOMAIN proposals :
          proposals[p].thread_id = proposals[q].thread_id => p = q
    /\ \A t \in ThreadIds : Cardinality(WithThread(t)) <= 1

\* two proposals on one draft exist, and a stream event for the thread of
\* the second was looked up
C13_Witness ==
    /\ Len(proposals) = 2
    /\ proposals[1].draft_id = proposals[2].draft_id
    /\ WithThread(2) = {2}
    /\ last = Done("stream_files", "ok", 2)
    /\ rt = NoRuntime
    /\ ws = NoSocket
    /\ proposals[1].status = "processing"

C14_State ==
    \A p \in DOMAIN proposals :
        <<p, proposals[p].created_by_user_id>> \in access

C14_Step ==
    /\ \A s \in Sessions :
          (/\ ApproveChecks(s)
           /\ Exists(loc[s].prop)
           /\ <<loc[s].prop, loc[s].user>> \notin access) =>
              /\ pc'[s] = "done"
              /\ result'[s].outcome = NotFound
              /\ ApproveHttpStatus(result'[s].outcome) = 404
              /\ proposals' = proposals
              /\ files' = files
              /\ drafts' = drafts
    /\ \A p \in DOMAIN proposals, u \in Users :
          (RejectProposal(p, u) /\ <<p, u>> \notin access) =>
              /\ last'.outcome = NotFound
              /\ proposals' = proposals
              /\ files' = files
              /\ drafts' = drafts

\* C14: every proposal has an access grant for its requester from the
\* step that creates it, and approve_proposal or reject_proposal by a user
\* without a grant for the proposal fails with "Proposal not found" and
\* leaves the proposal, the drafts and their files as they are.
C14_GrantDecidesAccess == []C14_State /\ [][C14_Step]_vars

\* a completed proposal was rejected by a user without a grant, and an
\* approval of it was refused as not found
C14_Witness ==
    /\ Exists(1)
    /\ proposals[1].status = "completed"
    /\ last = Done("reject", NotFound, 1)
    /\ rt = NoRuntime
    /\ ws = NoSocket
    /\ access = {<<1, "u1">>}
    /\ \E s \in Sessions : result[s] = Done("approve", NotFound, 1)

\* user u has no grant for proposal p: p has no row, or is not theirs
Hidden(p, u) == <<p, u>> \notin access

Untouched == UNCHANGED <<is_locked, drafts, draftSeq, files, proposals, access>>

\* C15: approve, reject, proposal read and refinement creation answer a
\* user the same for a proposal or workflow that has no row as for one
\* that exists and is not theirs: "Proposal not found" (404) for approve
\* and reject, "Access denied to proposal" (403) for the read, "Workflow
\* not found" (404) for the creation, and nothing is written.
C15_NoExistenceDisclosure ==
    [][/\ \A s \in Sessions :
             (ApproveChecks(s) /\ Hidden(loc[s].prop, loc[s].user)) =>
                 /\ result'[s] = Done("approve", NotFound, loc[s].prop)
                 /\ ApproveHttpStatus(result'[s].outcome) = 404
                 /\ Untouched
       /\ \A p \in AllProposalIds, u \in Users :
             (RejectProposal(p, u) /\ Hidden(p, u)) =>
                 /\ last' = Done("reject", NotFound, p)
                 /\ Untouched
       /\ \A p \in AllProposalIds, u \in Users :
             (ReadProposal(p, u) /\ Hidden(p, u)) =>
                 /\ last' = Done("read", "Access denied to proposal", p)
                 /\ ReadHttpStatus(last'.outcome) = 403
                 /\ Untouched
       /\ \A s \in Sessions :
             (/\ pc[s] = "ref_wf" /\ pc'[s] # "ref_wf"
              /\ WorkflowOwner(loc[s].wf) # loc[s].user) =>
                 /\ result'[s] =
                        Done("create_refinement", "Workflow not found", NoId)
                 /\ CreateHttpStatus(result'[s].outcome) = 404
                 /\ Untouched]_vars

\* proposal 1 exists and was read by a user without a grant; an approval
\* of proposal 2, which has no row, and a refinement creation that was
\* refused have returned
C15_Witness ==
    /\ Exists(1) /\ ~Exists(2)
    /\ access = {<<1, "u1">>}
    /\ last = Done("read", "Access denied to proposal", 1)
    /\ rt = NoRuntime
    /\ ws = NoSocket
    /\ \E s, t \in Sessions :
          /\ result[s] = Done("approve", NotFound, 2)
          /\ result[t] = Done("create_refinement", "Workflow not found", NoId)

\* the runtime call of proposal p fails in this step
RuntimeFails(p) == ProcessRefinementAsync(p) /\ last'.outcome = "failed"

\* C16: when the runtime call of a refinement request fails, the request's
\* proposal exists in status failed with a thread id prefixed "failed-",
\* and the caller of create_refinement_proposal is answered 503, not
\* success.
C16_RuntimeFailureSurfaces ==
    [][\A p \in AllProposalIds :
          RuntimeFails(p) =>
              /\ proposals'[p].status = "failed"
              /\ ThreadPrefix(p) = "failed-"
              /\ (last.op = "create" /\ last.id = p) =>
                     CreateHttpStatus(last.outcome) = 503]_vars

\* the call before this one applied payload f to draft d and succeeded
JustApplied(d, f) ==
    /\ last.op = "apply"
    /\ last.outcome = "ok"
    /\ last.draft = d
    /\ last.payload = f

\* C17: applying a file payload to a draft a second time leaves every path,
\* content and type of the draft as the first application left them, and
\* returns the same count.
C17_ApplyIdempotent ==
    [][\A d \in DraftIds, f \in FilePayloads :
          (JustApplied(d, f) /\ ApplyFilesToDraftCall(d, f)) =>
              /\ files' = files
              /\ last'.outcome = "ok"
              /\ last'.id = last.id]_vars

\* a payload with a list content and a skipped entry was applied over a
\* draft that held another content for the same path
C17_Witness ==
    /\ JustApplied(1, FilesB)
    /\ last.id = 1
    /\ files[1] = ("a.py" :> [content |-> "y\nz", file_type |-> "python"]
                   @@ "b.py" :> [content |-> "5", file_type |-> "markdown"])

WorkflowNotFound == "Workflow not found or access denied"
WorkflowLocked == "Workflow is locked by another operation"

\* session s passes the workflow check of get_or_create_draft in this step
GetOrCreateChecks(s) == pc[s] = "goc_lock" /\ pc'[s] # "goc_lock"

\* session s ended its get_or_create_draft call with this error and no id
GetOrCreateFailed(s, outcome) ==
    /\ pc[s] = "done"
    /\ result[s] = Done("get_or_create", outcome, NoId)

\* C18: get_or_create_draft(workflow_id, user_id) raises "Workflow not found
\* or access denied" when no workflow with that id is owned by user_id, and
\* "Workflow is locked by another operation" when the caller's workflow has
\* its lock flag set; in both cases the call ends there, no draft row is
\* inserted and no draft id is returned, whether or not the workflow has a
\* draft.
C18_GetOrCreateRefuses ==
    [][\A s \in Sessions :
          GetOrCreateChecks(s) =>
              LET w == loc[s].wf
                  owned == w \in Workflows /\ WorkflowOwner(w) = loc[s].user
              IN
              /\ ~owned =>
                    /\ GetOrCreateFailed(s, WorkflowNotFound)'
                    /\ drafts' = drafts /\ draftSeq' = draftSeq
              /\ (owned /\ is_locked[w]) =>
                    /\ GetOrCreateFailed(s, WorkflowLocked)'
                    /\ drafts' = drafts /\ draftSeq' = draftSeq
              /\ (owned /\ ~is_locked[w]) => pc'[s] = "goc_insert"]_vars

\* the owner of a locked workflow that has a draft was refused, and so was
\* a caller who asked for a workflow that is not theirs
C18_Witness ==
    /\ is_locked["w1"]
    /\ DraftsOf("w1") = {1}
    /\ \E s, t \in Sessions :
          /\ GetOrCreateFailed(s, WorkflowLocked)
          /\ GetOrCreateFailed(t, WorkflowNotFound)

\* C19: while the lock flag of a workflow is set, no step inserts a draft
\* for the workflow and no step changes a file of its draft.
C19_LockedDraftUntouched ==
    [][\A w \in Workflows :
          is_locked[w] =>
              /\ \A d \in DOMAIN drafts' :
                    drafts'[d] = w => d \in DraftsOf(w)
              /\ \A d \in DraftsOf(w) : files'[d] = files[d]]_vars

\* session s ends its approve call with an error in this step
ApproveFails(s) == ApproveEnds(s) /\ result'[s].outcome # "ok"

\* C20: an approve_proposal call that raises, at the access check, the
\* status check, the lock flag check, an upsert of one of the proposal's
\* files or the UPDATE of the proposal, leaves every draft's files and every
\* proposal row as they were before the call.
C20_ApproveAllOrNothing ==
    [][\A s \in Sessions :
          ApproveFails(s) =>
              /\ result'[s].op = "approve"
              /\ result'[s].outcome \in
                    {NotFound, NotReady, WorkflowLocked, DatabaseError}
              /\ files' = files
              /\ drafts' = drafts
              /\ proposals' = proposals]_vars

\* an approval of the two-file proposal failed at a statement of its write
\* phase and another was refused for the lock flag: the draft has no file
\* and the proposal is still completed
C20_Witness ==
    /\ \E s, t \in Sessions :
          /\ result[s] = Done("approve", DatabaseError, 1)
          /\ result[t] = Done("approve", WorkflowLocked, 1)
    /\ Len(UpsertSeq(proposals[1].generated_files.value)) = 2
    /\ files[1] = << >>
    /\ proposals[1].status = "completed"

\* this step is a guarded call of the runtime
Calls == rt'.calls = rt.calls + 1

C21_State == rt.streak >= FailMax => rt.state = "open"

C21_Step ==
    Calls /\ rt.state = "open" =>
        IF rt.elapsed < ResetTimeout
        THEN /\ ~rt'.lastcall.sent
             /\ rt'.requests = rt.requests
             /\ rt'.lastcall.raised = "CircuitBreakerError"
        ELSE /\ rt'.lastcall.sent
             /\ rt'.requests = rt.requests + 1

\* C21: when the last 5 or more requests of guarded calls all failed in
\* transport, the breaker is open; a call made while it is open and fewer
\* than 60 seconds have passed raises CircuitBreakerError without a
\* request; a call made after 60 seconds is let through to the network.
C21_BreakerOpensAfterFailures == []C21_State /\ [][C21_Step]_vars

Cleans == last'.op = "cleanup" /\ last' # last

\* C23: cleanup_thread_data raises nothing: it returns True for the
\* statuses 200, 204 and 404 and False for another status and for an error
\* of the transport; a call of it changes no proposal, draft or file, and
\* takes no row lock and ends no session, so a resolution is neither
\* undone nor held up by it.
C23_CleanupNeverRaises ==
    [][Cleans =>
          /\ last'.returned.raised = "none"
          /\ last'.outcome \in {"500", "transport"} =>
                last'.returned.value = FALSE
          /\ last'.outcome \in {"200", "204", "404"} =>
                last'.returned.value = TRUE
          /\ proposals' = proposals /\ files' = files /\ drafts' = drafts
          /\ rowLock' = rowLock /\ pc' = pc /\ result' = result]_vars

\* a cleanup of the thread of the approved proposal failed in transport
\* and the proposal is still approved
C23_Witness ==
    /\ proposals[1].status = "approved"
    /\ last.op = "cleanup" /\ last.outcome = "transport"
    /\ last.id = proposals[1].thread_id
    /\ last.returned = [raised |-> "none", value |-> FALSE]

\* C24: once a proposal is approved or rejected, cleanup_thread_data is
\* eventually called for its thread id.
C24_CleanupFollowsResolution ==
    \A p \in ProposalIds :
        (Exists(p) /\ proposals[p].status \in {"approved", "rejected"})
            ~> (/\ Exists(p)
                /\ last.op = "cleanup"
                /\ last.id = proposals[p].thread_id)

IsPrefix(a, b) == Len(a) <= Len(b) /\ SubSeq(b, 1, Len(a)) = a
IsJson(e) == e.json

\* the messages of the runtime the relay has taken from the connection
TakenFromRuntime == SubSeq(ws.rsent, 1, Len(ws.rsent) - Len(ws.rin))

\* the runtime connection was opened for this client
Relaying == ws.runtime \in {"open", "closed_ok", "closed_error", "torn_down"}

\* C25: the messages delivered to the runtime are, in order and once each,
\* the messages the relay has taken from the client; and while the client is
\* connected the events delivered to it are, in order and once each, the
\* messages taken from the runtime that parse as JSON.
C25_RelayInOrderOnce ==
    Relaying =>
        /\ IsPrefix(ws.rtout, ws.csent)
        /\ ws.runtime = "open" =>
              ws.rtout \o ws.cin = ws.csent
        /\ ws.client = "open" =>
              ws.cout = SelectSeq(TakenFromRuntime, IsJson)

\* data.files of the last on_state_update of a sequence that has files; the
\* empty mapping when none has
RECURSIVE LatestSnapshot(_)
LatestSnapshot(seq) ==
    IF seq = << >> THEN EmptyFiles
    ELSE LET e == seq[Len(seq)] IN
         IF e.json /\ e.event_type = "on_state_update" /\ e.data_dict
                   /\ e.has_files
         THEN e.files
         ELSE LatestSnapshot(SubSeq(seq, 1, Len(seq) - 1))

\* the relay takes the end event from the runtime connection in this step
TakesEnd ==
    /\ ws.d2c = "run"
    /\ ws.rin # << >>
    /\ Head(ws.rin) = EndEvent
    /\ ws'.rin = Tail(ws.rin)

C26_State == Len(ws.handed) <= 1

C26_Step ==
    TakesEnd =>
        ws'.handed = Append(ws.handed, LatestSnapshot(TakenFromRuntime))

\* C26: the step in which the relay takes the end event hands the file
\* update one snapshot, the data.files of the last on_state_update before
\* it that had files, and no other step of the connection hands one.
C26_EndHandsLatestSnapshot == []C26_State /\ [][C26_Step]_vars

\* a proposal of the thread exists and the user of the token has a grant
HasGrant ==
    \E p \in DOMAIN proposals :
        proposals[p].thread_id = ws.thread /\ <<p, ws.user>> \in access

\* the client of the connection has no valid token or no grant
Refused == ws.phase # "none" /\ (ws.token # "valid" \/ ~HasGrant)

RuntimeSideError == ws.runtime = "refused" \/ ws.d2c = "error"

\* C28: after a failed connection to the runtime stream, or an error while
\* reading from it, the proposal of the thread is eventually failed and the
\* client socket closed with code 1011.
C28_RuntimeErrorFailsAndCloses ==
    RuntimeSideError ~>
        /\ ws.close_code = 1011
        /\ proposals[GetProposalByThreadId(ws.thread)].status = "failed"

\* C29: after the client disconnects, both relays end and the runtime
\* connection is closed, whether or not the runtime sends anything more.
C29_DisconnectTearsDown ==
    (ws.client = "gone") ~>
        /\ ws.c2d = "done"
        /\ ws.d2c \in {"done", "error"}
        /\ ws.runtime = "torn_down"

\* C30: every proposal that has both timestamps was completed no later than
\* it was resolved.
C30_CompletedBeforeResolved ==
    \A p \in DOMAIN proposals :
        (proposals[p].completed_at # NullTime
           /\ proposals[p].resolved_at # NullTime)
            => proposals[p].completed_at <= proposals[p].resolved_at

\* the runtime-to-client relay has ended on an end event
EndedOnEnd == ws.d2c = "done" /\ ws.handed # << >>

\* C31: once the runtime-to-client relay has ended on an end event, the
\* session ends and the runtime connection is closed, whether or not the
\* client sends another message or disconnects.
C31_EndEventEndsSession ==
    EndedOnEnd ~> (ws.phase = "returned" /\ ws.runtime = "torn_down")

\* the relay takes a message that is not JSON from the runtime connection
TakesMalformed ==
    /\ ws.d2c = "run"
    /\ ws.rin # << >>
    /\ Head(ws.rin) = Malformed
    /\ ws'.rin = Tail(ws.rin)

\* a JSON event other than the one with null data (C25)
Relayed(e) == e.json /\ e # StateNullData

C32_State ==
    (Relaying /\ ws.client = "open") =>
        ws.cout = SelectSeq(TakenFromRuntime, Relayed)

C32_Step ==
    TakesMalformed =>
        /\ ws'.cout = ws.cout
        /\ ws'.final_files = ws.final_files
        /\ ws'.d2c = "run"
        /\ ws'.tasks = ws.tasks /\ ws'.handed = ws.handed
        /\ proposals' = proposals

\* C32: the step in which the relay takes a message that is not JSON sends
\* nothing to the client, keeps the remembered snapshot, leaves the relay
\* running, starts no task and leaves the proposal as it is; the events
\* taken before and after it reach the connected client in order.
C32_MalformedSkipped == []C32_State /\ [][C32_Step]_vars

\* a message that is not JSON was skipped and the event after it was
\* delivered to the connected client
C32_Witness ==
    /\ ws.client = "open" /\ ws.d2c = "run"
    /\ \E i \in 1..(Len(TakenFromRuntime) - 1) :
          /\ TakenFromRuntime[i] = Malformed
          /\ Relayed(TakenFromRuntime[i + 1])
          /\ i + 1 = Len(TakenFromRuntime)
          /\ ws.cout # << >>
          /\ ws.cout[Len(ws.cout)] = TakenFromRuntime[i + 1]

\* session s ends its approve call in this step, on draft d, for a proposal
\* whose generated_files has path p
ApprovesPath(s, d, p) ==
    /\ ApproveEnds(s)
    /\ result'[s].outcome = "ok"
    /\ proposals[loc[s].prop].draft_id = d
    /\ ~proposals[loc[s].prop].generated_files.is_null
    /\ p \in DOMAIN proposals[loc[s].prop].generated_files.value

\* C33: no step deletes a file of a draft, and a file of a draft is created
\* or changed (content or type) only by an approve_proposal whose proposal
\* has the file's path in its generated_files.
C33_ApproveTouchesOnlyGenerated ==
    [][\A d \in DraftIds :
          /\ DOMAIN files[d] \subseteq DOMAIN files'[d]
          /\ \A p \in DOMAIN files'[d] :
                (p \notin DOMAIN files[d] \/ files'[d][p] # files[d][p])
                    => \E s \in Sessions : ApprovesPath(s, d, p)]_vars

\* an approval stored a.py and left b.py, which the proposal does not have,
\* with the content and type it had
C33_Witness ==
    /\ \E s \in Sessions : Approved(s)
    /\ proposals[1].status = "approved"
    /\ proposals[1].generated_files.value = FilesA
    /\ DOMAIN files[1] = {"a.py", "b.py"}
    /\ files[1]["b.py"] = [content |-> "y\nz", file_type |-> "python"]

\* a record that is missing, empty, not JSON, not text, or JSON that is
\* not an object
MalformedRecord(x) == x.form # "json" \/ x.kind # "object"

\* C34: a call of a builder function with a record that is missing, empty
\* or malformed, JSON text that is not an object included, raises nothing
\* and returns what it returns for an empty record: the one new entry, or
\* an empty summary.
C34_BuilderTreatsMalformedAsEmpty ==
    (last.op \in AuditBuilders \cup {"get_audit_summary"}
       /\ MalformedRecord(last.input)) =>
        /\ last.returned.raised = "none"
        /\ last.op = "get_audit_summary" => last.returned.value = {}
        /\ last.op \in AuditBuilders =>
              /\ last.returned.value.kind = "object"
              /\ Cardinality(DOMAIN last.returned.value.entries) = 1

\* the lifecycle entries of a stored record
EntriesOf(c) ==
    IF c.form = "json" /\ c.kind = "object" THEN c.entries ELSE << >>

\* the record of every proposal has its created entry
C35_State ==
    \A p \in DOMAIN proposals :
        "created" \in DOMAIN EntriesOf(proposals[p].ai_generated_content)

\* no step removes or changes an entry of a stored record
C35_Step ==
    \A p \in DOMAIN proposals :
        \A k \in DOMAIN EntriesOf(proposals[p].ai_generated_content) :
            /\ k \in DOMAIN EntriesOf(proposals'[p].ai_generated_content)
            /\ EntriesOf(proposals'[p].ai_generated_content)[k]
                  = EntriesOf(proposals[p].ai_generated_content)[k]

\* C35: the stored record of a proposal has the created entry from its
\* creation on, and every entry of the record is still there, unchanged,
\* after any result update, approval or rejection.
C35_TrailAppendOnly == []C35_State /\ [][C35_Step]_vars

\* C36: a proposal in status processing eventually has another status,
\* whatever the runtime answers to its task and whatever state the breaker
\* is in.
C36_ProcessingEnds ==
    \A p \in ProposalIds :
        (Exists(p) /\ proposals[p].status = "processing")
            ~> (Exists(p) /\ proposals[p].status # "processing")

\* the task of a proposal met the open breaker and the proposal is failed
C36_Witness ==
    /\ Exists(1)
    /\ task[1] = "done"
    /\ last = Done("process", "failed", 1)
    /\ rt.lastcall.raised = "CircuitBreakerError" /\ ~rt.lastcall.sent
    /\ proposals[1].status = "failed"

\* C37: no two transactions wait for a row lock the other holds.
C37_NoLockCycle ==
    \A s, t \in Sessions : ~(s \in Blockers(t) /\ t \in Blockers(s))

\* the row the upsert stores for an entry of a file set
RowOf(e) == [content |-> ContentToText(e.content), file_type |-> FileTypeOf(e)]

\* the paths of a file set whose entries are stored
StoredPaths(g) == {p \in DOMAIN g : g[p].is_dict /\ g[p].has_content}

\* every file of draft 1 is the row of an entry of an approved proposal
C38_State ==
    \A path \in DOMAIN files[1] :
        \E p \in DOMAIN proposals :
            /\ proposals[p].status = "approved"
            /\ path \in StoredPaths(proposals[p].generated_files.value)
            /\ files[1][path] =
                  RowOf(proposals[p].generated_files.value[path])

\* a successful approval writes the whole file set of its proposal in its
\* one step; no other step writes files
C38_Step ==
    IF \E s \in Sessions : ApproveEnds(s) /\ result'[s].outcome = "ok"
    THEN \A s \in Sessions :
            (ApproveEnds(s) /\ result'[s].outcome = "ok") =>
                LET g == proposals[loc[s].prop].generated_files.value
                    d == proposals[loc[s].prop].draft_id IN
                /\ DOMAIN files'[d] = (DOMAIN files[d]) \cup StoredPaths(g)
                /\ \A path \in DOMAIN files'[d] :
                      files'[d][path] = IF path \in StoredPaths(g)
                                        THEN RowOf(g[path])
                                        ELSE files[d][path]
    ELSE files' = files

TrialCall == Calls /\ rt.state = "open" /\ rt.elapsed >= ResetTimeout

C39_Step ==
    /\ (TrialCall /\ rt'.lastcall.outcome = "ok") =>
          /\ rt'.lastcall.sent
          /\ rt'.state = "closed"
          /\ rt'.fail_counter = 0
    /\ (TrialCall /\ rt'.lastcall.outcome = "transport") =>
          /\ rt'.lastcall.sent
          /\ rt'.state = "open"
          /\ rt'.elapsed = 0
    /\ (Calls /\ rt.state = "open" /\ rt.elapsed < ResetTimeout) =>
          /\ ~rt'.lastcall.sent
          /\ rt'.state = "open"
          /\ rt'.elapsed = rt.elapsed
    /\ (Calls /\ rt.state = "closed" /\ rt'.lastcall.outcome = "ok") =>
          /\ rt'.state = "closed"
          /\ rt'.fail_counter = 0

====
